---- MODULE Spec2Model ----
(***************************************************************************)
(* Model of the CTI pipeline's per-source fetcher (BaseScraper: cache,     *)
(* rate limiter, execute), of the pipeline run that sequences the stages,  *)
(* of concurrent cache accesses and of the dashboard generator.  Time is   *)
(* the millisecond clock read by Date.now().                               *)
(***************************************************************************)
EXTENDS Integers, Sequences, FiniteSets, TLC

VARIABLES
  now,              \* Date.now(), in ms
  config,           \* this.config of the fetcher (ScraperConfig)
  env,              \* process.env entries read by the fetcher
  cacheFile,        \* content of <source>-cache.json, or Absent
  metaFile,         \* content of <source>-cache.meta.json, Absent or Garbage
  lastRequestTime,  \* this.lastRequestTime
  pc,               \* position of the execute() call in progress
  wakeAt,           \* earliest time the pending sleep() may resolve
  result,           \* value returned by the last execute() call
  calls,            \* number of execute() calls issued so far
  faults,           \* whether the cache files were modified since the last call
  pre,              \* history: what held when the current/last call was issued
  steps,            \* history: steps taken by the current/last call
  starts,           \* history: start time of every fetch, oldest first
  limiter,          \* history: what applyRateLimit decided, per call to it
  lastPut,          \* history: the last saveToCache and how it ended
  thrown,           \* history: what scrape() threw in the current/last call
  stage,            \* position of main() in the pipeline run
  penv,             \* process.env entries read by runScrapers
  outDir,           \* the files of OUTPUT_DIR
  runLog,           \* history: the stages main() has completed, in order
  srcLog,           \* history: how each source fetch of this run ended
  enrich,           \* history: how the enrichment call of this run ended
  race,             \* concurrent saveToCache/loadFromCache calls on one source
  board,            \* the dashboard generator: its input and its artifact
  ollama,           \* the enrichment step: its request, its timer, its result
  cti               \* indicator extraction: the files loaded and what was found

fetcherVars ==
  <<now, config, env, cacheFile, metaFile, lastRequestTime, pc, wakeAt,
    result, calls, faults, pre, steps, starts, limiter, lastPut, thrown>>

runVars == <<stage, penv, outDir, runLog, srcLog, enrich>>

auxVars == <<race, board, ollama, cti>>

vars == <<fetcherVars, runVars, auxVars>>

----------------------------------------------------------------------------
(* Bounds of the model *)

MaxCalls == 2
MaxPayloadLen == 1

(* Program constants *)

MsPerMinute == 60000
MsPerHour == 3600000

(* Date.now() at construction; any epoch time is at least one minute *)
StartTime == 100000

----------------------------------------------------------------------------
(* Payloads, their serialisation and the checksum *)

NoData == <<0>>           \* the `data` field of a result that carries none

Digits == {1}
LB == 8                   \* the byte that opens a serialised payload
RB == 9                   \* the byte that closes it
Junk == 7                 \* a byte that is no part of any serialisation

Payloads == UNION {[1..n -> Digits] : n \in 0..MaxPayloadLen}

\* JSON.stringify(data, null, 2)
Stringify(d) == <<LB>> \o d \o <<RB>>

\* JSON.parse(raw): the value, or a SyntaxError
Parse(s) ==
  IF /\ Len(s) >= 2
     /\ s[1] = LB
     /\ s[Len(s)] = RB
     /\ \A i \in 2..(Len(s) - 1) : s[i] \in Digits
  THEN [ok |-> TRUE, val |-> SubSeq(s, 2, Len(s) - 1)]
  ELSE [ok |-> FALSE, val |-> NoData]

RECURSIVE Digest(_, _)
Digest(s, acc) == IF s = <<>> THEN acc ELSE Digest(Tail(s), acc * 10 + Head(s))

\* crypto.createHash('md5').update(data).digest('hex')
generateChecksum(s) == Digest(s, 0)

----------------------------------------------------------------------------
(* Configuration and environment *)

RpmValues == {5}
CooldownValues == {2000}
TtlValues == {1}
UseCacheValues == {"true", "unset"}
TtlEnvValues == {"unset", "0", "2"}

Configs ==
  [enabled : BOOLEAN, cacheEnabled : BOOLEAN, requestsPerMinute : RpmValues,
   cooldownMs : CooldownValues, ttlHours : TtlValues]

Envs == [USE_CACHE : UseCacheValues, CACHE_TTL_HOURS : TtlEnvValues]

NaN == -1

\* Number(process.env.CACHE_TTL_HOURS)
NumberOf(s) == IF s = "0" THEN 0 ELSE IF s = "2" THEN 2 ELSE NaN

\* Number(process.env.CACHE_TTL_HOURS) || this.config.cache.ttlHours
EffectiveTtlHours ==
  LET n == NumberOf(env.CACHE_TTL_HOURS)
  IN IF n # NaN /\ n # 0 THEN n ELSE config.ttlHours

----------------------------------------------------------------------------
(* The cache: loadFromCache and saveToCache *)

Source == "shodan"

\* the payload file: missing, or its bytes
AbsentFile == [exists |-> FALSE, bytes |-> <<>>]
FileOf(bytes) == [exists |-> TRUE, bytes |-> bytes]

\* the metadata file: missing, not JSON, or the CacheMetadata object
AbsentMeta ==
  [state |-> "absent", createdAt |-> 0, expiresAt |-> 0, source |-> Source, checksum |-> 0]
GarbageMeta ==
  [state |-> "garbage", createdAt |-> 0, expiresAt |-> 0, source |-> Source, checksum |-> 0]

Value(d) == [kind |-> "value", val |-> d]
Null == [kind |-> "null", val |-> NoData]
Throw == [kind |-> "throw", val |-> NoData]

\* new Date() > expiresAt
Expired(t, expiresAt) == t > expiresAt

\* metadata.createdAt plus ttlHours hours (setHours(getHours() + ttlHours))
ExpiryOf(meta) == meta.createdAt + EffectiveTtlHours * MsPerHour

\* variant: the payload is parsed without comparing its checksum
LoadBodyUnverified(meta, file, t) ==
  IF meta.state = "absent" THEN Throw
  ELSE IF ~file.exists THEN Throw
  ELSE IF meta.state = "garbage" THEN Throw
  ELSE IF Expired(t, ExpiryOf(meta)) THEN Null
  ELSE IF Parse(file.bytes).ok THEN Value(Parse(file.bytes).val)
  ELSE Throw

\* the statements of loadFromCache's try block
LoadBody(meta, file, t) ==
  IF meta.state = "absent" THEN Throw             \* fs.access(metadataPath)
  ELSE IF ~file.exists THEN Throw                 \* fs.access(cachePath)
  ELSE IF meta.state = "garbage" THEN Throw       \* JSON.parse(metadataRaw)
  ELSE IF Expired(t, ExpiryOf(meta)) THEN Null
  ELSE IF generateChecksum(file.bytes) # meta.checksum THEN Null
  ELSE IF Parse(file.bytes).ok THEN Value(Parse(file.bytes).val)
  ELSE Throw                                      \* JSON.parse(dataRaw)

\* variant: no catch around the body
CatchLoadMissing(r) == r

\* try { ... } catch { return null }
CatchLoad(r) == IF r.kind = "throw" THEN Null ELSE r

loadFromCache(meta, file, t) == CatchLoad(LoadBody(meta, file, t))

\* variant: the checksum is taken of the payload before it is serialised
MetadataForUnserialised(dataString, t) ==
  [state |-> "ok",
   createdAt |-> t,
   expiresAt |-> t + config.ttlHours * MsPerHour,
   source |-> Source,
   checksum |-> generateChecksum(SubSeq(dataString, 2, Len(dataString) - 1))]

\* the metadata object saveToCache builds
MetadataFor(dataString, t) ==
  [state |-> "ok",
   createdAt |-> t,
   expiresAt |-> t + config.ttlHours * MsPerHour,
   source |-> Source,
   checksum |-> generateChecksum(dataString)]

PutFailures == {"none", "mkdir", "meta"}

\* saveToCache(data) at time t: the two files afterwards.  `fail` names the
\* file-system call that threw, if any; the catch swallows it.
saveToCache(data, t, fail) ==
  LET dataString == Stringify(data)
  IN IF fail = "mkdir" THEN [file |-> cacheFile, meta |-> metaFile]
     ELSE IF fail = "meta" THEN [file |-> FileOf(dataString), meta |-> metaFile]
     ELSE [file |-> FileOf(dataString), meta |-> MetadataFor(dataString, t)]

----------------------------------------------------------------------------
(* The rate limiter *)

\* variant: the comparison is the wrong way round
MustWaitInverted(elapsed) == elapsed * config.requestsPerMinute > MsPerMinute

\* elapsed < minInterval, with minInterval = 60000 / requestsPerMinute
MustWait(elapsed) == elapsed * config.requestsPerMinute < MsPerMinute

\* variant: the cooldown is not added
WaitTimeNoCooldown(elapsed) ==
  (MsPerMinute \div config.requestsPerMinute) - elapsed

\* minInterval - elapsed + cooldownMs
WaitTime(elapsed) ==
  (MsPerMinute \div config.requestsPerMinute) - elapsed + config.cooldownMs

----------------------------------------------------------------------------
(* Results of execute *)

NoResult == [success |-> FALSE, data |-> NoData, error |-> "none", fromCache |-> FALSE,
             returned |-> FALSE]

\* variant: a disabled fetcher reports success
DisabledResultSuccess ==
  [success |-> TRUE, data |-> NoData, error |-> "none", fromCache |-> FALSE,
   returned |-> TRUE]

DisabledResult ==
  [success |-> FALSE, data |-> NoData, error |-> "Scraper disabled",
   fromCache |-> FALSE, returned |-> TRUE]

\* variant: the cached payload is returned without the fromCache flag
CachedResultUnflagged(d) ==
  [success |-> TRUE, data |-> d, error |-> "none", fromCache |-> FALSE, returned |-> TRUE]

CachedResult(d) ==
  [success |-> TRUE, data |-> d, error |-> "none", fromCache |-> TRUE, returned |-> TRUE]

FetchedResult(d) ==
  [success |-> TRUE, data |-> d, error |-> "none", fromCache |-> FALSE, returned |-> TRUE]

\* what scrape() may throw: an Error with a message, or any other value
ScrapeErrors == {[isError |-> TRUE, message |-> "HTTP 500"],
                 [isError |-> FALSE, message |-> "none"]}

NoThrow == [isError |-> FALSE, message |-> "none", any |-> FALSE]
Thrown(e) == [isError |-> e.isError, message |-> e.message, any |-> TRUE]

\* error instanceof Error ? error.message : 'Unknown error'
FailedResult(e) ==
  [success |-> FALSE, data |-> NoData,
   error |-> IF e.isError THEN e.message ELSE "Unknown error",
   fromCache |-> FALSE, returned |-> TRUE]

\* variant: only Error instances are caught
TryScrapeErrorsOnly(e) == [escapes |-> ~e.isError, result |-> FailedResult(e)]

\* try { await this.scrape() ... } catch (error) { return {success: false ...} }
TryScrape(e) == [escapes |-> FALSE, result |-> FailedResult(e)]

\* this.config.cache.enabled && process.env.USE_CACHE === 'true'
CacheConsulted == config.cacheEnabled /\ env.USE_CACHE = "true"

----------------------------------------------------------------------------

(* execute(), one action per step between two awaits that take time *)

CallGaps == {0, MsPerHour, 2 * MsPerHour}\* idle time before execute is called
FetchDurations == {1000, 12000} \* how long scrape() takes
Oversleep == {0, 500}                \* how late setTimeout may fire

NoPut == [data |-> NoData, at |-> 0, completed |-> FALSE, any |-> FALSE]

Last2(s) == IF Len(s) > 2 THEN SubSeq(s, Len(s) - 1, Len(s)) ELSE s

\* what is remembered of the moment execute is called, `gap` ms after the
\* previous call returned
Snapshot(t, gap) ==
  [at |-> t,
   valid |-> loadFromCache(metaFile, cacheFile, t).kind = "value",
   file |-> cacheFile,
   meta |-> metaFile,
   lrt |-> lastRequestTime,
   backToBack |-> gap = 0 /\ calls > 0 /\ "fetch" \in {steps[i] : i \in 1..Len(steps)}]

FetcherStart ==
  /\ now = StartTime
  /\ cacheFile = AbsentFile
  /\ metaFile = AbsentMeta
  /\ lastRequestTime = 0
  /\ pc = "idle"
  /\ wakeAt = 0
  /\ result = NoResult
  /\ calls = 0
  /\ faults = FALSE
  /\ pre = [at |-> 0, valid |-> FALSE, file |-> AbsentFile, meta |-> AbsentMeta,
            lrt |-> 0, backToBack |-> FALSE]
  /\ steps = <<>>
  /\ starts = <<>>
  /\ limiter = [elapsed |-> 0, slept |-> FALSE, waitTime |-> 0, first |-> FALSE,
                any |-> FALSE]
  /\ lastPut = NoPut
  /\ thrown = NoThrow

CanCall == pc = "idle" /\ calls < MaxCalls

\* if (!this.config.enabled) return {success: false, error: 'Scraper disabled'}
ExecuteDisabled ==
  \E gap \in CallGaps :
    /\ CanCall
    /\ ~config.enabled
    /\ now' = now + gap
    /\ calls' = calls + 1
    /\ thrown' = NoThrow
    /\ faults' = FALSE
    /\ pre' = Snapshot(now', gap)
    /\ steps' = <<>>
    /\ result' = DisabledResult
    /\ UNCHANGED <<config, env, cacheFile, metaFile, lastRequestTime, pc, wakeAt,
                   starts, limiter, lastPut>>

\* the cache is consulted and loadFromCache returns the payload
ExecuteCacheHit ==
  \E gap \in CallGaps :
    LET cached == loadFromCache(metaFile, cacheFile, now + gap)
    IN /\ CanCall
       /\ config.enabled
       /\ CacheConsulted
       /\ cached.kind = "value"
       /\ now' = now + gap
       /\ calls' = calls + 1
       /\ thrown' = NoThrow
       /\ faults' = FALSE
       /\ pre' = Snapshot(now', gap)
       /\ steps' = <<"cache_check">>
       /\ result' = CachedResult(cached.val)
       /\ UNCHANGED <<config, env, cacheFile, metaFile, lastRequestTime, pc, wakeAt,
                      starts, limiter, lastPut>>

\* the cache is not consulted, or loadFromCache returns null
ExecuteCacheMiss ==
  \E gap \in CallGaps :
    LET cached == loadFromCache(metaFile, cacheFile, now + gap)
    IN /\ CanCall
       /\ config.enabled
       /\ ~(CacheConsulted /\ cached.kind = "value")
       /\ now' = now + gap
       /\ calls' = calls + 1
       /\ thrown' = NoThrow
       /\ faults' = FALSE
       /\ pre' = Snapshot(now', gap)
       /\ steps' = IF CacheConsulted THEN <<"cache_check">> ELSE <<>>
       /\ result' = NoResult
       /\ pc' = "rate_limit"
       /\ UNCHANGED <<config, env, cacheFile, metaFile, lastRequestTime, wakeAt,
                      starts, limiter, lastPut>>

StartFetch(t) ==
  /\ lastRequestTime' = t
  /\ starts' = Last2(Append(starts, [at |-> t, calledAt |-> pre.at,
                                      backToBack |-> pre.backToBack]))
  /\ pc' = "fetching"

\* applyRateLimit when the previous request is long enough ago
RateLimitPass ==
  LET elapsed == now - lastRequestTime
  IN /\ pc = "rate_limit"
     /\ ~MustWait(elapsed)
     /\ limiter' = [elapsed |-> elapsed, slept |-> FALSE, waitTime |-> 0,
                    first |-> lastRequestTime = 0, any |-> TRUE]
     /\ steps' = steps \o <<"rate_limit", "fetch">>
     /\ StartFetch(now)
     /\ UNCHANGED <<thrown, now, config, env, cacheFile, metaFile, wakeAt, result, calls,
                    faults, pre, lastPut>>

\* applyRateLimit when it must wait: await this.sleep(waitTime)
RateLimitWait ==
  LET elapsed == now - lastRequestTime
  IN /\ pc = "rate_limit"
     /\ MustWait(elapsed)
     /\ limiter' = [elapsed |-> elapsed, slept |-> TRUE, waitTime |-> WaitTime(elapsed),
                    first |-> lastRequestTime = 0, any |-> TRUE]
     /\ wakeAt' = now + WaitTime(elapsed)
     /\ steps' = Append(steps, "rate_limit")
     /\ pc' = "sleeping"
     /\ UNCHANGED <<thrown, now, config, env, cacheFile, metaFile, lastRequestTime, result,
                    calls, faults, pre, starts, lastPut>>

\* the timer fires; this.lastRequestTime = Date.now(); scrape() starts
SleepDone ==
  \E late \in Oversleep :
    /\ pc = "sleeping"
    /\ now' = wakeAt + late
    /\ steps' = Append(steps, "fetch")
    /\ StartFetch(now')
    /\ UNCHANGED <<thrown, config, env, cacheFile, metaFile, wakeAt, result, calls, faults,
                   pre, limiter, lastPut>>

\* scrape() resolves; the payload is cached when caching is enabled
ScrapeSucceeds ==
  \E d \in FetchDurations, data \in Payloads, fail \in PutFailures :
    LET written == saveToCache(data, now + d, fail)
    IN /\ pc = "fetching"
       /\ now' = now + d
       /\ IF config.cacheEnabled
          THEN /\ cacheFile' = written.file
               /\ metaFile' = written.meta
               /\ steps' = Append(steps, "cache_write")
               /\ lastPut' = [data |-> data, at |-> now', completed |-> fail = "none",
                              any |-> TRUE]
          ELSE /\ fail = "none"
               /\ UNCHANGED <<cacheFile, metaFile, steps, lastPut>>
       /\ result' = FetchedResult(data)
       /\ pc' = "idle"
       /\ UNCHANGED <<thrown, config, env, lastRequestTime, wakeAt, calls, faults, pre,
                      starts, limiter>>

\* variant: a failed fetch also removes the cache entry
ScrapeThrowsDropsCache ==
  \E d \in FetchDurations, e \in ScrapeErrors :
    /\ pc = "fetching"
    /\ now' = now + d
    /\ thrown' = Thrown(e)
    /\ pc' = "idle"
    /\ result' = FailedResult(e)
    /\ cacheFile' = AbsentFile
    /\ metaFile' = AbsentMeta
    /\ UNCHANGED <<config, env, lastRequestTime, wakeAt, calls,
                   faults, pre, steps, starts, limiter, lastPut>>

\* scrape() rejects; the catch block builds the failure result
ScrapeThrows ==
  \E d \in FetchDurations, e \in ScrapeErrors :
    /\ pc = "fetching"
    /\ now' = now + d
    /\ thrown' = Thrown(e)
    /\ IF TryScrape(e).escapes
       THEN pc' = "crashed" /\ result' = NoResult
       ELSE pc' = "idle" /\ result' = TryScrape(e).result
    /\ UNCHANGED <<config, env, cacheFile, metaFile, lastRequestTime, wakeAt, calls,
                   faults, pre, steps, starts, limiter, lastPut>>

----------------------------------------------------------------------------
(* What may happen to the cache files between two calls *)

CanFault == pc = "idle" /\ ~faults /\ calls < MaxCalls

Faulted ==
  /\ faults' = TRUE
  /\ lastPut' = NoPut
  /\ steps' = <<>>
  /\ result' = NoResult
  /\ thrown' = NoThrow
  /\ UNCHANGED <<now, config, env, lastRequestTime, pc, wakeAt, calls, pre, starts,
                 limiter>>

PayloadFileRemoved ==
  /\ CanFault
  /\ cacheFile.exists
  /\ cacheFile' = AbsentFile
  /\ UNCHANGED metaFile
  /\ Faulted

MetadataFileRemoved ==
  /\ CanFault
  /\ metaFile.state # "absent"
  /\ metaFile' = AbsentMeta
  /\ UNCHANGED cacheFile
  /\ Faulted

MetadataFileGarbled ==
  /\ CanFault
  /\ metaFile.state = "ok"
  /\ metaFile' = GarbageMeta
  /\ UNCHANGED cacheFile
  /\ Faulted

\* the payload bytes change and the metadata does not: a truncated file, a
\* foreign byte, or the bytes of another payload
CorruptionsOf(bytes) ==
  ({SubSeq(bytes, 1, Len(bytes) - 1), Append(bytes, Junk)}
     \cup {Stringify(p) : p \in Payloads}) \ {bytes}

PayloadFileCorrupted ==
  \E bytes \in CorruptionsOf(cacheFile.bytes) :
    /\ CanFault
    /\ cacheFile.exists
    /\ cacheFile' = FileOf(bytes)
    /\ UNCHANGED metaFile
    /\ Faulted

----------------------------------------------------------------------------
(* The pipeline run: main() with the command 'all' *)

\* baseConfig of runScrapers
BaseConfig ==
  [enabled |-> TRUE, cacheEnabled |-> TRUE, requestsPerMinute |-> 5,
   cooldownMs |-> 2000, ttlHours |-> 24]

Sources == {"shodan", "x"}

\* a JSON file of OUTPUT_DIR: missing, left by a previous run, or written by
\* this run
NoFile(body) == [exists |-> FALSE, run |-> "none", body |-> body]
Written(body, run) == [exists |-> TRUE, run |-> run, body |-> body]

NoProcessed == [threats |-> 0, sources |-> {}]
NoAnalysis == [model |-> "none", narrative |-> FALSE]
NoDashboard == [kind |-> "none", totalSignals |-> 0, narrative |-> FALSE]

\* what a previous run may have left in OUTPUT_DIR
StaleDirs ==
  [shodan : {NoFile(<<>>), Written(Stringify(<<1>>), "previous")},
   x : {NoFile(<<>>), Written(Stringify(<<1>>), "previous")},
   processed : {NoFile(NoProcessed),
                Written([threats |-> 1, sources |-> {"shodan"}], "previous")},
   llm : {NoFile(NoAnalysis),
          Written([model |-> "heuristic", narrative |-> TRUE], "previous")},
   dashboard : {NoFile(NoDashboard)}]

\* what `await scraper.execute()` hands to runScrapers: one of the results
\* execute returns, or the exception when it lets one escape
Returned(r) == [escaped |-> FALSE, result |-> r]
Escaped == [escaped |-> TRUE, result |-> NoResult]

ExecuteOutcomes ==
  {Returned(FetchedResult(d)) : d \in Payloads}
    \cup {Returned(CachedResult(d)) : d \in Payloads}
    \cup {IF TryScrape(e).escapes THEN Escaped ELSE Returned(TryScrape(e).result) :
            e \in ScrapeErrors}

OutcomeLabel(r) ==
  IF ~r.success THEN "failed" ELSE IF r.fromCache THEN "cached" ELSE "fresh"

\* main's catch: console.error(...); process.exit(1)
Abort ==
  /\ stage' = "failed"
  /\ UNCHANGED <<penv, outDir, runLog, srcLog, enrich>>

\* one source block of runScrapers: no credentials, or execute and saveData
SourceSkipped(src, key, next) ==
  /\ stage = src
  /\ ~penv[key]
  /\ srcLog' = [srcLog EXCEPT ![src] = "skipped"]
  /\ stage' = next
  /\ runLog' = IF next = "process" THEN Append(runLog, "scrapers") ELSE runLog
  /\ UNCHANGED <<penv, outDir, enrich>>

SourceExecuted(src, key, next) ==
  \E o \in ExecuteOutcomes :
    /\ stage = src
    /\ penv[key]
    /\ IF o.escaped
       THEN Abort
       ELSE /\ srcLog' = [srcLog EXCEPT ![src] = OutcomeLabel(o.result)]
            /\ outDir' = IF o.result.success
                         THEN [outDir EXCEPT
                                 ![src] = Written(Stringify(o.result.data), "this")]
                         ELSE outDir
            /\ stage' = next
            /\ runLog' = IF next = "process" THEN Append(runLog, "scrapers")
                         ELSE runLog
            /\ UNCHANGED <<penv, enrich>>

ShodanSkipped == SourceSkipped("shodan", "SHODAN_API_KEY", "x") /\ UNCHANGED fetcherVars
ShodanExecuted == SourceExecuted("shodan", "SHODAN_API_KEY", "x") /\ UNCHANGED fetcherVars
XSkipped == SourceSkipped("x", "X_COOKIES_PATH", "process") /\ UNCHANGED fetcherVars
XExecuted == SourceExecuted("x", "X_COOKIES_PATH", "process") /\ UNCHANGED fetcherVars

\* the signals a source file contributes: none when the file is missing or
\* does not parse
SignalsOf(file) ==
  IF file.exists /\ Parse(file.body).ok THEN Len(Parse(file.body).val) ELSE 0

\* DataProcessor.process(): the normalized artifact built from the two source
\* files of OUTPUT_DIR
ProcessedFrom(dir) ==
  [threats |-> SignalsOf(dir.shodan) + SignalsOf(dir.x),
   sources |-> {src \in Sources : SignalsOf(dir[src]) > 0}]

RunProcessor ==
  /\ stage = "process"
  /\ outDir' = [outDir EXCEPT !.processed = Written(ProcessedFrom(outDir), "this")]
  /\ stage' = "analyze"
  /\ runLog' = Append(runLog, "processor")
  /\ UNCHANGED <<penv, srcLog, enrich>>
  /\ UNCHANGED fetcherVars

\* how the request of callOllama may end
EnrichOutcomes == {"ok", "non2xx", "timeout", "network", "no_body"}

\* callOllama throws unless the response is 2xx and carries a body
CallOllamaThrows(o) == o # "ok"

\* variant: the catch of analyze handles HTTP errors only
TryAnalyzeHttpOnly(o) ==
  [escapes |-> o \in {"timeout", "network", "no_body"},
   analysis |-> [model |-> IF o = "ok" THEN "ollama" ELSE "heuristic",
                 narrative |-> TRUE]]

\* try { callOllama; parseResponse } catch { heuristicAnalysis }
TryAnalyze(o) ==
  [escapes |-> FALSE,
   analysis |-> [model |-> IF CallOllamaThrows(o) THEN "heuristic" ELSE "ollama",
                 narrative |-> TRUE]]

\* analyze() when there is no data: emptyResult(), nothing called or saved
AnalyzerNoData ==
  /\ stage = "analyze"
  /\ ~outDir.processed.exists \/ outDir.processed.body.threats = 0
  /\ enrich' = "not_called"
  /\ stage' = "dashboard"
  /\ runLog' = Append(runLog, "analyzer")
  /\ UNCHANGED <<penv, outDir, srcLog>>
  /\ UNCHANGED fetcherVars

\* analyze() with data: one request, then parseResponse or heuristicAnalysis,
\* then saveResult
AnalyzerCalls ==
  \E o \in EnrichOutcomes :
    /\ stage = "analyze"
    /\ outDir.processed.exists /\ outDir.processed.body.threats > 0
    /\ IF TryAnalyze(o).escapes
       THEN Abort
       ELSE /\ enrich' = o
            /\ outDir' = [outDir EXCEPT !.llm = Written(TryAnalyze(o).analysis, "this")]
            /\ stage' = "dashboard"
            /\ runLog' = Append(runLog, "analyzer")
            /\ UNCHANGED <<penv, srcLog>>
    /\ UNCHANGED fetcherVars

\* buildDashboard(processedData, llmAnalysis)
buildDashboard(processed, llm) ==
  IF ~processed.exists \/ processed.body.threats = 0
  THEN [kind |-> "empty", totalSignals |-> 0, narrative |-> FALSE]
  ELSE [kind |-> "full", totalSignals |-> processed.body.threats,
        narrative |-> llm.exists /\ llm.body.narrative]

\* generate(): loadJson twice, buildDashboard, saveDashboard
RunDashboard ==
  /\ stage = "dashboard"
  /\ outDir' = [outDir EXCEPT
                  !.dashboard = Written(buildDashboard(outDir.processed, outDir.llm),
                                        "this")]
  /\ stage' = "complete"
  /\ runLog' = Append(runLog, "dashboard")
  /\ UNCHANGED <<penv, srcLog, enrich>>
  /\ UNCHANGED fetcherVars

----------------------------------------------------------------------------
(* Concurrent cache accesses: several saveToCache calls and one            *)
(* loadFromCache call on the same source, interleaved at their awaits      *)

MaxPuts == 2

\* the calls are followed for one hour longer than a cache entry lives
RaceHours == config.ttlHours + 1

Puts == 1..MaxPuts

IdlePut == [pc |-> "idle", data |-> NoData, meta |-> AbsentMeta]
IdleGet ==
  [pc |-> "idle", at |-> 0, metaRead |-> AbsentMeta, fileRead |-> AbsentFile,
   out |-> Throw]

RaceIdle == [puts |-> [p \in Puts |-> IdlePut], get |-> IdleGet]

\* fs.writeFile opens the file with flag 'w': it is empty until the data lands
TruncatedFile == FileOf(<<>>)
TruncatedMeta == GarbageMeta

\* the puts are followed until the get has returned
PutAt(p, position) == race.puts[p].pc = position /\ race.get.pc # "done"

PutMoves(p, position) ==
  race' = [race EXCEPT !.puts[p].pc = position]

\* the clock is read by saveToCache (createdAt) and by loadFromCache (the
\* expiry check) only: time passes right before either, by whole hours
Elapses(hours) ==
  /\ now + hours * MsPerHour <= StartTime + RaceHours * MsPerHour
  /\ now' = now + hours * MsPerHour

\* saveToCache up to the first writeFile: mkdir, stringify, checksum, metadata
PutBegin(p) ==
  /\ PutAt(p, "idle")
  /\ \A q \in Puts : q < p => race.puts[q].pc # "idle"   \* numbered as they begin
  /\ \E hours \in 0..RaceHours : Elapses(hours)
  /\ \E d \in Payloads :
       race' = [race EXCEPT !.puts[p] =
                  [pc |-> "prepared", data |-> d,
                   meta |-> MetadataFor(Stringify(d), now')]]
  /\ UNCHANGED <<cacheFile, metaFile>>

\* fs.writeFile(getCachePath(), ...) has opened the payload file
PutPayloadOpened(p) ==
  /\ PutAt(p, "prepared")
  /\ cacheFile' = TruncatedFile
  /\ PutMoves(p, "payload_open")
  /\ UNCHANGED <<now, metaFile>>

\* ... and has written dataString to it
PutPayloadWritten(p) ==
  /\ PutAt(p, "payload_open")
  /\ cacheFile' = FileOf(Stringify(race.puts[p].data))
  /\ PutMoves(p, "payload_done")
  /\ UNCHANGED <<now, metaFile>>

\* fs.writeFile(getCacheMetadataPath(), ...) has opened the metadata file
PutMetaOpened(p) ==
  /\ PutAt(p, "payload_done")
  /\ metaFile' = TruncatedMeta
  /\ PutMoves(p, "meta_open")
  /\ UNCHANGED <<now, cacheFile>>

\* ... and has written the metadata to it
PutMetaWritten(p) ==
  /\ PutAt(p, "meta_open")
  /\ metaFile' = race.puts[p].meta
  /\ PutMoves(p, "done")
  /\ UNCHANGED <<now, cacheFile>>

\* a file-system call of saveToCache throws (the catch logs it), or the
\* process ends: the put goes no further
PutStops(p) ==
  /\ \E position \in {"prepared", "payload_open", "payload_done", "meta_open"} :
       PutAt(p, position)
  /\ PutMoves(p, "stopped")
  /\ UNCHANGED <<now, cacheFile, metaFile>>

GetAt(position) == race.get.pc = position

GetReturns(r) ==
  race' = [race EXCEPT !.get.pc = "done", !.get.out = r]

\* await fs.access(metadataPath)
GetAccessMeta ==
  /\ GetAt("idle")
  /\ IF metaFile.state = "absent"
     THEN GetReturns(CatchLoad(Throw))
     ELSE race' = [race EXCEPT !.get.pc = "access_cache"]
  /\ UNCHANGED <<now, cacheFile, metaFile>>

\* await fs.access(cachePath)
GetAccessCache ==
  /\ GetAt("access_cache")
  /\ IF ~cacheFile.exists
     THEN GetReturns(CatchLoad(Throw))
     ELSE race' = [race EXCEPT !.get.pc = "read_meta"]
  /\ UNCHANGED <<now, cacheFile, metaFile>>

\* await fs.readFile(metadataPath), JSON.parse and the expiry check
GetReadMeta ==
  /\ GetAt("read_meta")
  /\ \E hours \in 0..RaceHours : Elapses(hours)
  /\ IF metaFile.state # "ok"
     THEN GetReturns(CatchLoad(Throw))
     ELSE IF Expired(now', ExpiryOf(metaFile))
     THEN GetReturns(Null)
     ELSE race' = [race EXCEPT !.get.pc = "read_data", !.get.at = now',
                               !.get.metaRead = metaFile]
  /\ UNCHANGED <<cacheFile, metaFile>>

\* await fs.readFile(cachePath), the checksum check and JSON.parse
GetReadData ==
  /\ GetAt("read_data")
  /\ race' = [race EXCEPT
                !.get.pc = "done",
                !.get.fileRead = cacheFile,
                !.get.out = loadFromCache(race.get.metaRead, cacheFile, race.get.at)]
  /\ UNCHANGED <<now, cacheFile, metaFile>>

RaceFrame ==
  UNCHANGED <<config, env, lastRequestTime, pc, wakeAt, result, calls, faults,
              pre, steps, starts, limiter, lastPut, thrown, runVars, board,
              ollama, cti>>

----------------------------------------------------------------------------
(* The correlation engine (DataProcessor, consumed by the generator)       *)

MaxLabels == 6

TenthsPerHour == 10       \* hours are counted in tenths

InfraSource == "shodan"   \* DataSource.SHODAN
SocialSource == "x.com"   \* DataSource.X_COM

NoTime == 0
NoEntry == [present |-> FALSE, count |-> 0, lastSeen |-> NoTime]
Entry(count, lastSeen) == [present |-> TRUE, count |-> count, lastSeen |-> lastSeen]

NoTemporal ==
  [present |-> FALSE, timeDeltaHours |-> 0, infraPrecedesSocial |-> FALSE,
   pattern |-> "none"]

\* lastSeen of the infrastructure side of every modelled label, and the
\* differences socialLastSeen - infraLastSeen that are modelled (in tenths)
InfraSeenAt == 100
Deltas == {0 - 10, 0, 5, 50}

\* the candidate signals of one label: seen under both sources, under the
\* infrastructure source only, or with a zero count under the social source
Candidates ==
  {[infra |-> Entry(1, InfraSeenAt), social |-> Entry(2, InfraSeenAt + d)] : d \in Deltas}
  \cup {[infra |-> Entry(1, InfraSeenAt), social |-> NoEntry],
        [infra |-> Entry(1, InfraSeenAt), social |-> Entry(0, InfraSeenAt)]}

Abs(x) == IF x < 0 THEN 0 - x ELSE x

\* variant: a delta of exactly one hour still counts as simultaneous
PatternOfInclusive(delta) ==
  IF Abs(delta) <= TenthsPerHour THEN "simultaneous"
  ELSE IF delta > 0 THEN "infra-first"
  ELSE "social-first"

\* step 3 of the engine: the pattern of one time difference
PatternOf(delta) ==
  IF Abs(delta) < TenthsPerHour THEN "simultaneous"
  ELSE IF delta > 0 THEN "infra-first"
  ELSE "social-first"

\* step 3 of the engine: temporalAnalysis of a signal with both lastSeen
TemporalOf(c) ==
  IF c.infra.present /\ c.social.present
  THEN LET delta == c.social.lastSeen - c.infra.lastSeen
       IN [present |-> TRUE, timeDeltaHours |-> delta,
           infraPrecedesSocial |-> delta > 0, pattern |-> PatternOf(delta)]
  ELSE NoTemporal

\* step 2 of the engine: count > 0 under both sources
Correlated(s) ==
  /\ s.infra.present /\ s.infra.count > 0
  /\ s.social.present /\ s.social.count > 0

Patterns == {"infra-first", "social-first", "simultaneous"}

Votes(signals, pattern) ==
  Cardinality({i \in DOMAIN signals :
                 Correlated(signals[i]) /\ signals[i].temporalAnalysis.pattern = pattern})

\* variant: on a tie the first pattern with the highest count wins
DominantOfFirstWins(signals) ==
  IF \A p \in Patterns : Votes(signals, p) = 0 THEN "insufficient-data"
  ELSE IF \A p \in Patterns : Votes(signals, "infra-first") >= Votes(signals, p)
  THEN "infra-first"
  ELSE IF \A p \in Patterns : Votes(signals, "social-first") >= Votes(signals, p)
  THEN "social-first"
  ELSE "simultaneous"

\* step 4 of the engine: the pattern with more votes than every other one
DominantOf(signals) ==
  LET winners == {p \in Patterns :
                    /\ Votes(signals, p) > 0
                    /\ \A q \in Patterns \ {p} : Votes(signals, p) > Votes(signals, q)}
  IN IF winners = {} THEN "insufficient-data" ELSE CHOOSE p \in winners : TRUE

\* the `correlation` object of processed-data.json for a list of candidates
CorrelationOf(candidates) ==
  LET signals == [i \in DOMAIN candidates |->
                    [label |-> i, infra |-> candidates[i].infra,
                     social |-> candidates[i].social,
                     temporalAnalysis |-> TemporalOf(candidates[i])]]
  IN [signals |-> signals, dominantPattern |-> DominantOf(signals)]

----------------------------------------------------------------------------
(* The dashboard generator *)

MaxSeverityCount == 4
MaxThreats == 10

DisplayedSignals == 5     \* correlatedSignals.slice(0, 5)

Min(a, b) == IF a < b THEN a ELSE b

\* variant: a high-severity signal weighs 10
calculateRiskScoreLightHigh(critical, high, medium, low) ==
  Min(100, (critical * 40) + (high * 10) + (medium * 5) + (low * 1))

\* variant: no cap
calculateRiskScoreUncapped(critical, high, medium, low) ==
  (critical * 40) + (high * 20) + (medium * 5) + (low * 1)

\* calculateRiskScore: the counts are integers, so Math.round changes nothing
calculateRiskScore(critical, high, medium, low) ==
  Min(100, (critical * 40) + (high * 20) + (medium * 5) + (low * 1))

\* variant: the thresholds belong to the lower level
determineRiskLevelExclusive(score) ==
  IF score > 75 THEN "critical"
  ELSE IF score > 45 THEN "elevated"
  ELSE IF score > 15 THEN "moderate"
  ELSE "low"

determineRiskLevel(score) ==
  IF score >= 75 THEN "critical"
  ELSE IF score >= 45 THEN "elevated"
  ELSE IF score >= 15 THEN "moderate"
  ELSE "low"

\* variant: the two bounds are inclusive
determineTrendInclusive(total, recentCount) ==
  IF recentCount * 10 >= total * 5 THEN "increasing"
  ELSE IF recentCount * 10 <= total * 2 THEN "decreasing"
  ELSE "stable"

\* determineTrend: recentCount of `total` threats are newer than one hour.
\* recentCount > total * 0.5 and recentCount < total * 0.2, in tenths
determineTrend(total, recentCount) ==
  IF recentCount * 10 > total * 5 THEN "increasing"
  ELSE IF recentCount * 10 < total * 2 THEN "decreasing"
  ELSE "stable"

\* Object.keys(data.summary.bySource || {}).length
NoKey == 0 - 1
SourceCount(bySource) == Cardinality({s \in DOMAIN bySource : bySource[s] # NoKey})

\* variant: no cap
calculateConfidenceUncapped(data, llm) ==
  50 + SourceCount(data.bySource) * 10
     + (IF data.threats >= 10 THEN 15 ELSE IF data.threats >= 5 THEN 10 ELSE 0)
     + (IF llm.present /\ llm.executiveSummary THEN 10 ELSE 0)

calculateConfidence(data, llm) ==
  LET withSources == 50 + SourceCount(data.bySource) * 10
      withThreats == IF data.threats >= 10 THEN withSources + 15
                     ELSE IF data.threats >= 5 THEN withSources + 10
                     ELSE withSources
      withLlm == IF llm.present /\ llm.executiveSummary THEN withThreats + 10
                 ELSE withThreats
  IN Min(95, withLlm)

\* generateInterpretation: the template chosen for a signal
generateInterpretation(sig) ==
  LET ta == sig.temporalAnalysis
  IN IF ~ta.present \/ ta.timeDeltaHours = 0 THEN "simultaneous"
     ELSE IF ta.infraPrecedesSocial
     THEN IF ta.pattern = "scanning" THEN "scanning-before-social"
          ELSE "infra-before-social"
     ELSE "social-before-infra"

NoCorrelation == [present |-> FALSE, pattern |-> "none", signals |-> <<>>]

\* variant: every correlated signal is kept
ShownAll(correlatedSignals) == correlatedSignals

\* correlatedSignals.slice(0, 5)
Shown(correlatedSignals) ==
  SubSeq(correlatedSignals, 1, Min(DisplayedSignals, Len(correlatedSignals)))

\* variant: the section reports the pattern of its first signal
SectionPatternOfFirst(correlation) ==
  SelectSeq(correlation.signals, Correlated)[1].temporalAnalysis.pattern

\* pattern: correlation.dominantPattern
SectionPattern(correlation) == correlation.dominantPattern

buildCorrelationSection(data) ==
  LET correlation == data.correlation
      correlatedSignals == SelectSeq(correlation.signals, Correlated)
      shown == Shown(correlatedSignals)
  IN IF Len(correlation.signals) = 0 \/ Len(correlatedSignals) = 0
     THEN NoCorrelation
     ELSE [present |-> TRUE,
           pattern |-> SectionPattern(correlation),
           signals |-> [i \in DOMAIN shown |->
                          [label |-> shown[i].label,
                           infraCount |-> shown[i].infra.count,
                           socialCount |-> shown[i].social.count,
                           timeDeltaHours |-> shown[i].temporalAnalysis.timeDeltaHours,
                           interpretation |-> generateInterpretation(shown[i])]]]

\* metrics, timeline, sources and indicators of an artifact without signals
NoSignals ==
  [criticalCount |-> 0, highCount |-> 0, mediumCount |-> 0, lowCount |-> 0,
   timeline |-> 0, sources |-> {}, cves |-> 0]

NoArtifact ==
  [kind |-> "none", riskLevel |-> "low", riskScore |-> 0, trend |-> "stable",
   confidenceLevel |-> 0, totalSignals |-> 0, correlation |-> NoCorrelation,
   shown |-> NoSignals]

buildEmptyDashboard ==
  [kind |-> "empty", riskLevel |-> "low", riskScore |-> 0, trend |-> "stable",
   confidenceLevel |-> 0, totalSignals |-> 0, correlation |-> NoCorrelation,
   shown |-> NoSignals]

\* threats.slice(0, 8) and the .slice(0, 10) of the CVE indicators
TimelineShown == 8
CvesShown == 10

\* the metrics, the length of the timeline, the sources with signals and the
\* number of CVE indicators displayed
ShownOf(data) ==
  [criticalCount |-> data.bySeverity.critical, highCount |-> data.bySeverity.high,
   mediumCount |-> data.bySeverity.medium, lowCount |-> data.bySeverity.low,
   timeline |-> Min(data.threats, TimelineShown),
   sources |-> {src \in DOMAIN data.bySource : data.bySource[src] > 0},
   cves |-> Min(data.indicators, CvesShown)]

\* buildDashboard(data, llm), in full
DashboardOf(data, llm) ==
  IF ~data.present \/ data.threats = 0
  THEN buildEmptyDashboard
  ELSE LET riskScore == calculateRiskScore(data.bySeverity.critical, data.bySeverity.high,
                                           data.bySeverity.medium, data.bySeverity.low)
       IN [kind |-> "full",
           riskLevel |-> determineRiskLevel(riskScore),
           riskScore |-> riskScore,
           trend |-> determineTrend(data.threats, data.recent),
           confidenceLevel |-> calculateConfidence(data, llm),
           totalSignals |-> data.threats,
           correlation |-> buildCorrelationSection(data),
           shown |-> ShownOf(data)]

SourceNames == {InfraSource, SocialSource}

\* the sources summary.bySource may list
SummarySources == SourceNames \cup {"misp"}

NoCorrelationData == [signals |-> <<>>, dominantPattern |-> "insufficient-data"]

\* processed-data.json as the generator reads it; `present` is FALSE when
\* loadJson returns null (no file, or not JSON)
ProcessedData(present, threats, recent, bySeverity, bySource) ==
  [present |-> present, threats |-> threats, recent |-> recent,
   bySeverity |-> bySeverity, bySource |-> bySource,
   indicators |-> threats,
   correlation |-> NoCorrelationData]

\* llm-analysis.json as the generator reads it
NoLlm == [present |-> FALSE, executiveSummary |-> FALSE]
LlmFiles == {NoLlm} \cup {[present |-> TRUE, executiveSummary |-> b] : b \in BOOLEAN}

OneSignal ==
  ProcessedData(TRUE, 1, 1, [critical |-> 0, high |-> 1, medium |-> 0, low |-> 0],
                [s \in SummarySources |-> IF s \in SourceNames THEN 1 ELSE NoKey])

BoardIdle ==
  [stage |-> "idle", candidates |-> <<>>, data |-> OneSignal, llm |-> NoLlm,
   artifact |-> NoArtifact]

BoardFrame == UNCHANGED <<fetcherVars, runVars, race, ollama, cti>>

\* the engine writes the correlation of this run into processed-data.json
EngineCorrelates ==
  /\ board.stage = "candidates"
  /\ board' = [board EXCEPT !.stage = "processed",
                            !.data.correlation = CorrelationOf(board.candidates)]
  /\ BoardFrame

\* generate(): loadJson twice, buildDashboard, saveDashboard
Generate ==
  /\ board.stage = "processed"
  /\ board' = [board EXCEPT !.stage = "generated",
                            !.artifact = DashboardOf(board.data, board.llm)]
  /\ BoardFrame

----------------------------------------------------------------------------
(* The enrichment step: LLMAnalyzer and CTIAgentSystem                     *)

\* a string-valued field of a response or of a result: undefined, or a text
\* made of a template and the numbers interpolated into it
Undefined == [defined |-> FALSE, text |-> "", args |-> <<>>]
Str(text) == [defined |-> TRUE, text |-> text, args |-> <<>>]
Fmt(text, args) == [defined |-> TRUE, text |-> text, args |-> args]

\* JavaScript truthiness of such a field: undefined and '' are falsy
Truthy(v) == v.defined /\ v.text # ""

\* String.prototype.toLowerCase on the words a response may use as a label
LowerCase(s) ==
  CASE s = "HIGH" -> "high"
    [] s = "Severe" -> "severe"
    [] OTHER -> s

\* riskMatch?.[1]?.toLowerCase()
toLowerCase(v) == IF v.defined THEN Str(LowerCase(v.text)) ELSE v

\* NormalizedData: the numbers normalizeForLLM hands to the prompt and to
\* the heuristics
Normalized(critical, high, medium) ==
  [threatCount |-> critical + high + medium, critical |-> critical,
   high |-> high, medium |-> medium]

validRisks == {"critical", "high", "medium", "low"}

calculateRisk(d) ==
  IF d.critical > 0 THEN "critical"
  ELSE IF d.high > 2 THEN "high"
  ELSE IF d.high > 0 \/ d.medium > 5 THEN "medium"
  ELSE "low"

\* variant: the default summary carries the time it was written at
defaultSummaryDated(d) ==
  Fmt("amenazas detectadas, criticas. Foco:", <<d.threatCount, d.critical, now>>)

defaultSummary(d) ==
  Fmt("amenazas detectadas, criticas. Foco:", <<d.threatCount, d.critical>>)

defaultAction(d) ==
  IF d.critical > 0 THEN Str("Revisar amenazas criticas inmediatamente")
  ELSE IF d.high > 0 THEN Str("Priorizar amenazas de severidad alta")
  ELSE Str("Monitorear indicadores detectados")

\* the response text of the endpoint, as parseResponse reads it: at most one
\* {...} group, with free text before and after it; a line of free text
\* names one field, as in `risk: high`
NoLine == [field |-> "none", value |-> Undefined]
Line(field, value) == [field |-> field, value |-> Str(value)]

NoObject ==
  [present |-> FALSE, wellFormed |-> FALSE, risk |-> Undefined,
   summary |-> Undefined, action |-> Undefined]

RiskWords == {"high", "HIGH", "severe"}
ModelSummary == "Exposed SSH hosts discussed on social media"
ModelAction == "Restrict SSH to the VPN"

Lines ==
  {NoLine} \cup {Line("risk", w) : w \in RiskWords}
    \cup {Line("summary", ModelSummary), Line("action", ModelAction)}

\* the {...} groups: every field is missing, '' or a value; the group may
\* fail JSON.parse
Objects ==
  {NoObject} \cup
  [present : {TRUE}, wellFormed : BOOLEAN,
   risk : {Undefined, Str("")} \cup {Str(w) : w \in RiskWords},
   summary : {Undefined, Str(""), Str(ModelSummary)},
   action : {Undefined, Str(""), Str(ModelAction)}]

Responses == [before : Lines, object : Objects, after : Lines]

\* Strategy 1: raw.match(/\{[^{}]*\}/) and JSON.parse of the match
Strategy1(raw) ==
  IF raw.object.present /\ raw.object.wellFormed
  THEN [risk |-> raw.object.risk, summary |-> raw.object.summary,
        action |-> raw.object.action]
  ELSE [risk |-> Undefined, summary |-> Undefined, action |-> Undefined]

\* what the regex of a field captures in a line of free text
MatchLine(line, field) == IF line.field = field THEN line.value ELSE Undefined

\* what the regex of a field captures in the text of the {...} group: the
\* value when there is one; at "field":"" the risk regex finds no \w and the
\* other two capture the punctuation that follows the quotes
MatchObject(object, field) ==
  IF ~object.present \/ ~object[field].defined THEN Undefined
  ELSE IF object[field].text # "" THEN object[field]
  ELSE IF field = "risk" THEN Undefined
  ELSE Str(",")

\* raw.match(regex of the field): the first match in the text
Match(raw, field) ==
  IF MatchLine(raw.before, field).defined THEN MatchLine(raw.before, field)
  ELSE IF MatchObject(raw.object, field).defined THEN MatchObject(raw.object, field)
  ELSE MatchLine(raw.after, field)

\* variant: the regex is applied whatever strategy 1 found
Strategy2Overrides(parsed, raw) ==
  [risk |-> IF Match(raw, "risk").defined THEN toLowerCase(Match(raw, "risk"))
            ELSE parsed.risk,
   summary |-> IF Match(raw, "summary").defined THEN Match(raw, "summary")
               ELSE parsed.summary,
   action |-> IF Match(raw, "action").defined THEN Match(raw, "action")
              ELSE parsed.action]

\* Strategy 2: each field strategy 1 left falsy is taken from its regex
Strategy2(parsed, raw) ==
  [risk |-> IF Truthy(parsed.risk) THEN parsed.risk
            ELSE toLowerCase(Match(raw, "risk")),
   summary |-> IF Truthy(parsed.summary) THEN parsed.summary
               ELSE Match(raw, "summary"),
   action |-> IF Truthy(parsed.action) THEN parsed.action
              ELSE Match(raw, "action")]

\* the locals risk, summary and action of parseResponse: each parsed field,
\* or its default
Validated(parsed, d) ==
  [risk |-> IF parsed.risk.text \in validRisks THEN parsed.risk.text
            ELSE calculateRisk(d),
   summary |-> IF Truthy(parsed.summary) THEN parsed.summary ELSE defaultSummary(d),
   action |-> IF Truthy(parsed.action) THEN parsed.action ELSE defaultAction(d)]

ParsedFields(raw, d) == Validated(Strategy2(Strategy1(raw), raw), d)

HeuristicFields(d) ==
  [risk |-> calculateRisk(d), summary |-> defaultSummary(d),
   action |-> defaultAction(d)]

ConfidenceOllama == 75
ConfidenceHeuristic == 70

\* buildResult(data, risk, summary, action, model) at time t; the parameter
\* risk is not used by the body
buildResult(d, fields, model, t) ==
  [insights |-> <<[id |-> t, content |-> fields.summary,
                   confidence |-> IF model = "ollama" THEN ConfidenceOllama
                                  ELSE ConfidenceHeuristic]>>,
   executiveSummary |-> fields.summary,
   recommendations |-> <<fields.action>>,
   analysisTimestamp |-> t,
   model |-> model]

heuristicAnalysis(d, t) == buildResult(d, HeuristicFields(d), "heuristic", t)

parseResponse(raw, d, t) == buildResult(d, ParsedFields(raw, d), "ollama", t)

emptyResult(t) ==
  [insights |-> <<>>,
   executiveSummary |-> Str("Sin datos para analizar."),
   recommendations |-> <<Str("Ejecutar pipeline con scrapers habilitados")>>,
   analysisTimestamp |-> t,
   model |-> "none"]

\* a CVE id as a string: its digits, and the letter case it is written in
\* ('CVE-2024-0001', 'cve-2024-0001', 'Cve-2024-0001')
Casings == {"upper", "lower", "mixed"}
CveId(year, number, casing) == [year |-> year, number |-> number, casing |-> casing]

\* String.prototype.toUpperCase on a CVE id
toUpperCase(id) == [id EXCEPT !.casing = "upper"]

\* cve.match(/CVE-(\d{4})/): the regex is case-sensitive
guessCVESeverity(cve) ==
  IF cve.casing = "upper"
  THEN IF cve.year >= 2024 THEN "critical"
       ELSE IF cve.year >= 2022 THEN "high"
       ELSE "medium"
  ELSE "medium"

\* the context string of buildContext, by the lines it is made of: the date,
\* the CVE lines and the threat counts of processed.summary
NoCounts == [present |-> FALSE, critical |-> 0]
Counts(critical) == [present |-> TRUE, critical |-> critical]

buildContext(cves, counts, day) == [date |-> day, cves |-> cves, counts |-> counts]

\* context.includes('Critical:') && !context.includes('Critical: 0')
hasCritical(context) == context.counts.present /\ context.counts.critical # 0

\* context.includes('CVE-')
hasVulns(context) ==
  \E i \in 1..Len(context.cves) : context.cves[i].casing = "upper"

fallbackAnalysis(context) ==
  [summary |-> Str("Automated threat intelligence analysis"),
   keyFindings |-> <<IF hasVulns(context)
                     THEN Str("Known vulnerabilities detected in exposed infrastructure")
                     ELSE Str("Infrastructure scan completed"),
                     Str("Remote access services (SSH/RDP/SMB) exposed to internet"),
                     Str("Social media monitoring active for threat indicators")>>,
   riskLevel |-> IF hasCritical(context) THEN "high" ELSE "medium",
   riskScore |-> IF hasCritical(context) THEN 70 ELSE 50,
   recommendations |-> <<Str("Review and restrict exposed remote access services"),
                         Str("Patch systems with known vulnerabilities"),
                         Str("Implement network segmentation"),
                         Str("Enable multi-factor authentication"),
                         Str("Monitor for indicators of compromise")>>,
   killChainPhase |-> "Reconnaissance"]

\* the response text of the endpoint, as parseTextResponse reads it: the
\* sections its headers delimit, the words of the RISK section and the
\* kill-chain words of the whole text
NoSection == [present |-> FALSE, bullets |-> <<>>]
Section(bullets) == [present |-> TRUE, bullets |-> bullets]
NoScore == 0 - 1

RiskSections ==
  {[present |-> FALSE, label |-> "", score |-> NoScore]} \cup
  [present : {TRUE}, label : {"", "critical", "HIGH", "low", "medium", "severe"},
   score : {NoScore, 90}]

KillChainWords == {"exploit", "malware", "c2", "exfil"}

TextResponses ==
  [summary : {Undefined, Str(""), Str(ModelSummary)},
   findings : {NoSection, Section(<<>>), Section(<<Str("SSH exposed")>>)},
   risk : RiskSections,
   recommendations : {NoSection, Section(<<>>), Section(<<Str(ModelAction)>>)},
   mentions : SUBSET KillChainWords]

\* riskText.includes(...) on the lower-cased RISK section
RiskLevelOf(risk) ==
  LET riskText == LowerCase(risk.label)
  IN IF ~risk.present THEN "medium"
     ELSE IF riskText = "critical" THEN "critical"
     ELSE IF riskText = "high" THEN "high"
     ELSE IF riskText = "low" THEN "low"
     ELSE "medium"

RiskScoreOf(risk) ==
  LET level == RiskLevelOf(risk)
  IN IF risk.present /\ risk.score # NoScore THEN Min(100, risk.score)
     ELSE IF level = "critical" THEN 85
     ELSE IF level = "high" THEN 70
     ELSE IF level = "low" THEN 25
     ELSE 50

KillChainPhaseOf(mentions) ==
  IF "exploit" \in mentions THEN "Exploitation"
  ELSE IF "malware" \in mentions THEN "Delivery"
  ELSE IF "c2" \in mentions THEN "Command & Control"
  ELSE IF "exfil" \in mentions THEN "Actions on Objectives"
  ELSE "Reconnaissance"

parseTextResponse(text) ==
  [summary |-> IF Truthy(text.summary) THEN text.summary
               ELSE Str("Analysis completed based on available data."),
   keyFindings |-> text.findings.bullets,
   riskLevel |-> RiskLevelOf(text.risk),
   riskScore |-> RiskScoreOf(text.risk),
   recommendations |-> text.recommendations.bullets,
   killChainPhase |-> KillChainPhaseOf(text.mentions)]

\* the CTIAnalysis that analyze() builds around the analysis, at time t
CTIAnalysis(analysis, t) == [timestamp |-> t, model |-> "CTI_MODEL", analysis |-> analysis]

\* setTimeout(() => controller.abort(), 60000) of LLMAnalyzer.callOllama and
\* REQUEST_TIMEOUT of CTIAgentSystem
OllamaTimeoutMs == 60000
REQUEST_TIMEOUT == 300000

\* how many times the orchestrator is called on one input
MaxInvocations == 2

Orchestrators == {"LLMAnalyzer", "CTIAgentSystem"}

TimeoutOf(impl) == IF impl = "LLMAnalyzer" THEN OllamaTimeoutMs ELSE REQUEST_TIMEOUT

\* what an orchestrator is run on: processed-data.json (missing, or its
\* severity counts) and the CVE ids the extraction found
EnrichInput(present, critical, high, medium, cves) ==
  [present |-> present, critical |-> critical, high |-> high, medium |-> medium,
   cves |-> cves]

NoRaw == [before |-> NoLine, object |-> NoObject, after |-> NoLine]
NoFields == [risk |-> "", summary |-> Undefined, action |-> Undefined]
NoEnrichment == [model |-> "pending"]
NoFirst == [exit |-> "none", result |-> NoEnrichment]

EnrichIdle(impl, input) ==
  [impl |-> impl, pc |-> "idle", input |-> input, invocations |-> 0,
   requests |-> 0, timer |-> "unset", aborted |-> FALSE, inflight |-> FALSE,
   exit |-> "none", raw |-> NoRaw, fields |-> NoFields, result |-> NoEnrichment,
   saved |-> FALSE, first |-> NoFirst, leaked |-> FALSE]

\* the NormalizedData and the context of the current input
NormalizedOf(input) == Normalized(input.critical, input.high, input.medium)
ContextOf(input, t) ==
  buildContext(input.cves,
               IF input.present THEN Counts(input.critical) ELSE NoCounts, t)

\* clearTimeout(timeout): a timer that has fired stays fired
clearTimeout(timer) == IF timer = "armed" THEN "cleared" ELSE timer

\* the timer once callOllama has thrown: LLMAnalyzer clears it in a finally
\* block, CTIAgentSystem only before `throw new Error(`HTTP ...`)`
TimerAfterThrow(impl, exit, timer) ==
  IF impl = "LLMAnalyzer" \/ exit = "non2xx" THEN clearTimeout(timer) ELSE timer

\* the catch block: heuristicAnalysis(normalized), fallbackAnalysis(context)
FallbackOf(impl, input, t) ==
  IF impl = "LLMAnalyzer" THEN heuristicAnalysis(NormalizedOf(input), t)
  ELSE CTIAnalysis(fallbackAnalysis(ContextOf(input, t)), t)

\* llm-analysis.json once saveResult has written it
SavedLlm(analysis) ==
  [present |-> TRUE, executiveSummary |-> Truthy(analysis.executiveSummary)]

EnrichFrame ==
  UNCHANGED <<config, env, cacheFile, metaFile, lastRequestTime, pc, wakeAt,
              result, calls, faults, pre, steps, starts, limiter, lastPut, thrown,
              runVars, race, cti>>

\* callOllama throws, the catch block builds the fallback result and
\* saveResult writes it
Fails(exit) ==
  /\ ollama' = [ollama EXCEPT
               !.pc = "done",
               !.inflight = FALSE,
               !.exit = exit,
               !.timer = TimerAfterThrow(ollama.impl, exit, ollama.timer),
               !.fields = IF ollama.impl = "LLMAnalyzer"
                          THEN HeuristicFields(NormalizedOf(ollama.input))
                          ELSE NoFields,
               !.result = FallbackOf(ollama.impl, ollama.input, now),
               !.saved = TRUE]
  /\ board' = IF ollama.impl = "LLMAnalyzer"
              THEN [board EXCEPT
                      !.llm = SavedLlm(FallbackOf(ollama.impl, ollama.input, now))]
              ELSE board
  /\ UNCHANGED now

\* variant: only a missing processed-data.json counts as no data
HasDataIfPresent(input) == input.present

\* !(!data || data.threats.length === 0)
HasData(input) == input.present /\ NormalizedOf(input).threatCount # 0

\* analyze() up to its first await on the network: without data LLMAnalyzer
\* returns emptyResult(); otherwise callOllama arms the timer and sends the
\* request
AnalyzeBegins ==
  /\ ollama.pc = "idle"
  /\ IF ollama.impl = "LLMAnalyzer" /\ ~HasData(ollama.input)
     THEN ollama' = [ollama EXCEPT !.pc = "done", !.exit = "empty",
                             !.invocations = @ + 1,
                             !.result = emptyResult(now)]
     ELSE ollama' = [ollama EXCEPT !.pc = "fetch", !.invocations = @ + 1,
                             !.requests = @ + 1, !.timer = "armed",
                             !.inflight = TRUE]
  /\ UNCHANGED <<now, board>>
  /\ EnrichFrame

\* fetch rejects: the endpoint cannot be reached
FetchRejects ==
  /\ ollama.pc = "fetch"
  /\ Fails("network")
  /\ EnrichFrame

\* fetch resolves with a status other than 2xx
FetchRespondsError ==
  /\ ollama.pc = "fetch"
  /\ Fails("non2xx")
  /\ EnrichFrame

\* fetch resolves with a 2xx status: LLMAnalyzer awaits res.json(),
\* CTIAgentSystem takes the reader of res.body and throws if there is none
FetchRespondsOk ==
  \E body \in BOOLEAN :
    /\ ollama.pc = "fetch"
    /\ IF ollama.impl = "CTIAgentSystem" /\ ~body
       THEN Fails("no_body")
       ELSE /\ ollama' = [ollama EXCEPT !.pc = "body"]
            /\ UNCHANGED <<now, board>>
    /\ EnrichFrame

\* the body cannot be read: the connection is lost, or (LLMAnalyzer) the
\* body is empty and res.json() rejects
BodyRejects ==
  \E exit \in {"network", "no_body"} :
    /\ ollama.pc = "body"
    /\ exit = "no_body" => ollama.impl = "LLMAnalyzer"
    /\ Fails(exit)
    /\ EnrichFrame

\* the response text is there: clearTimeout, then parseResponse and
\* saveResult, or parseTextResponse
BodyArrives ==
  /\ ollama.pc = "body"
  /\ IF ollama.impl = "LLMAnalyzer"
     THEN \E raw \in Responses :
            /\ ollama' = [ollama EXCEPT
                         !.pc = "done", !.inflight = FALSE, !.exit = "success",
                         !.timer = clearTimeout(@),
                         !.raw = raw,
                         !.fields = ParsedFields(raw, NormalizedOf(ollama.input)),
                         !.result = parseResponse(raw, NormalizedOf(ollama.input), now),
                         !.saved = TRUE]
            /\ board' = [board EXCEPT
                           !.llm = SavedLlm(parseResponse(raw, NormalizedOf(ollama.input),
                                                          now))]
     ELSE \E text \in TextResponses :
            /\ ollama' = [ollama EXCEPT
                         !.pc = "done", !.inflight = FALSE, !.exit = "success",
                         !.timer = clearTimeout(@),
                         !.raw = text,
                         !.result = CTIAnalysis(parseTextResponse(text), now),
                         !.saved = TRUE]
            /\ UNCHANGED board
  /\ UNCHANGED now
  /\ EnrichFrame

\* the timer fires after the timeout: controller.abort(), which cancels the
\* request if it is still in flight
TimerFires ==
  /\ ollama.timer = "armed"
  /\ now' = now + TimeoutOf(ollama.impl)
  /\ ollama' = [ollama EXCEPT
               !.timer = "fired",
               !.aborted = ollama.inflight,
               !.inflight = FALSE,
               !.leaked = (ollama.pc = "done"),
               !.pc = IF ollama.pc = "done" THEN "done" ELSE "aborted"]
  /\ UNCHANGED board
  /\ EnrichFrame

\* the aborted fetch (or read) rejects with an AbortError
AbortRejects ==
  /\ ollama.pc = "aborted"
  /\ Fails("timeout")
  /\ EnrichFrame

\* the orchestrator is called once more, on the same input
AnalyzeAgain ==
  /\ ollama.pc = "done"
  /\ ollama.invocations < MaxInvocations
  /\ ollama.timer # "armed"
  /\ ollama' = [EnrichIdle(ollama.impl, ollama.input) EXCEPT
               !.invocations = ollama.invocations,
               !.first = [exit |-> ollama.exit, result |-> ollama.result]]
  /\ UNCHANGED <<now, board>>
  /\ EnrichFrame

\* main(): runDashboard() once runAnalyzer() has returned
GenerateAfterAnalyze ==
  /\ ollama.impl = "LLMAnalyzer"
  /\ ollama.pc = "done"
  /\ board.stage = "processed"
  /\ board' = [board EXCEPT !.stage = "generated",
                            !.artifact = DashboardOf(board.data, board.llm)]
  /\ UNCHANGED <<now, ollama>>
  /\ EnrichFrame
----------------------------------------------------------------------------
(* Indicator extraction: CTIAgentSystem.extractIndicators and              *)
(* QueryGenerator.extractIndicatorsFromPosts                               *)

MaxCves == 2

\* the CVE ids the inputs may hold: one id in three letter cases, and
\* another id
CveIds == {CveId(2024, 1, c) : c \in Casings} \cup {CveId(2021, 2, "upper")}

CveLists == UNION {[1..n -> CveIds] : n \in 0..MaxCves}

\* the three files analyze() loads, as loadJson returns them: which run
\* wrote the file, and what extractIndicators reads in it (null: present is
\* FALSE)
Loaded(run, present, entries, cves) ==
  [run |-> run, present |-> present, entries |-> entries, cves |-> cves]
NotLoaded == Loaded("none", FALSE, 0, <<>>)

\* loadJson(filename) on a file of OUTPUT_DIR
loadJson(file) ==
  IF file.exists /\ Parse(file.body).ok
  THEN Loaded(file.run, TRUE, Len(Parse(file.body).val), <<>>)
  ELSE NotLoaded

HostsRead == 20
PostsRead == 10

CveEntry(id) == [id |-> id, severity |-> guessCVESeverity(id)]

\* cves.find(c => c.id === cve)
Found(cves, id) == \E i \in 1..Len(cves) : cves[i].id = id

\* the two loops that push a CVE unless an entry has exactly that id
RECURSIVE PushCves(_, _)
PushCves(cves, ids) ==
  IF ids = <<>> THEN cves
  ELSE PushCves(IF Found(cves, Head(ids)) THEN cves
                ELSE Append(cves, CveEntry(Head(ids))),
                Tail(ids))

extractIndicators(processed, shodan, xData) ==
  [ips |-> IF shodan.present THEN Min(shodan.entries, HostsRead) ELSE 0,
   ipsFrom |-> IF shodan.present /\ shodan.entries > 0 THEN shodan.run ELSE "none",
   cves |-> PushCves(PushCves(<<>>, IF shodan.present THEN shodan.cves ELSE <<>>),
                     IF processed.present THEN processed.cves ELSE <<>>),
   socialPosts |-> IF xData.present THEN Min(xData.entries, PostsRead) ELSE 0,
   socialPostsFrom |-> IF xData.present /\ xData.entries > 0 THEN xData.run ELSE "none"]

NoExtraction == extractIndicators(NotLoaded, NotLoaded, NotLoaded)

\* String.prototype.toLowerCase on a CVE id
toLowerCaseId(id) == [id EXCEPT !.casing = "lower"]

\* [...new Set(ids)]: the first occurrence of every id, in order
RECURSIVE Unique(_, _)
Unique(seen, ids) ==
  IF ids = <<>> THEN seen
  ELSE Unique(IF \E i \in 1..Len(seen) : seen[i] = Head(ids) THEN seen
              ELSE Append(seen, Head(ids)),
              Tail(ids))

\* the cves of extractIndicatorsFromPosts: the matches of /cve-\d{4}-\d{4,}/gi
\* in the lower-cased text of the posts, upper-cased, as a Set
extractIndicatorsFromPosts(mentions) ==
  Unique(<<>>, [i \in 1..Len(mentions) |-> toUpperCase(toLowerCaseId(mentions[i]))])

CtiIdle ==
  [agents |-> "idle", processed |-> NotLoaded, shodan |-> NotLoaded,
   xData |-> NotLoaded, extraction |-> NoExtraction,
   queryGen |-> "idle", mentions |-> <<>>, extracted |-> <<>>]

CtiFrame == UNCHANGED <<fetcherVars, runVars, race, board, ollama>>

\* analyze(), STEP 1, on the three files it has loaded
ExtractIndicators ==
  /\ cti.agents = "loaded"
  /\ cti' = [cti EXCEPT
               !.agents = "extracted",
               !.extraction = extractIndicators(cti.processed, cti.shodan, cti.xData)]
  /\ CtiFrame

\* generateQueries(): extractIndicatorsFromPosts(xData.posts)
ExtractFromPosts ==
  /\ cti.queryGen = "loaded"
  /\ cti' = [cti EXCEPT
               !.queryGen = "extracted",
               !.extracted = extractIndicatorsFromPosts(cti.mentions)]
  /\ CtiFrame

\* CTIAgentSystem.analyze() run on OUTPUT_DIR once runScrapers has
\* returned: the three loadJson calls and the extraction
AgentsAnalyze ==
  /\ stage = "process"
  /\ cti.agents = "idle"
  /\ cti' = [cti EXCEPT
               !.agents = "extracted",
               !.processed = Loaded(outDir.processed.run, outDir.processed.exists,
                                    outDir.processed.body.threats, <<>>),
               !.shodan = loadJson(outDir.shodan),
               !.xData = loadJson(outDir.x),
               !.extraction = extractIndicators(
                                Loaded(outDir.processed.run, outDir.processed.exists,
                                       outDir.processed.body.threats, <<>>),
                                loadJson(outDir.shodan), loadJson(outDir.x))]
  /\ stage' = "complete"
  /\ runLog' = Append(runLog, "agents")
  /\ UNCHANGED <<penv, outDir, srcLog, enrich>>
  /\ UNCHANGED <<fetcherVars, race, board, ollama>>

----------------------------------------------------------------------------
(* The specifications of the fetcher and of the pipeline run *)

\* no concurrent cache access and no dashboard generation in progress
LlmIdle == EnrichIdle("LLMAnalyzer", EnrichInput(FALSE, 0, 0, 0, <<>>))

AuxIdle == race = RaceIdle /\ board = BoardIdle /\ ollama = LlmIdle /\ cti = CtiIdle

\* no pipeline run: the fetcher alone
RunIdle ==
  /\ stage = "idle"
  /\ penv = [SHODAN_API_KEY |-> FALSE, X_COOKIES_PATH |-> FALSE]
  /\ outDir = [shodan |-> NoFile(<<>>), x |-> NoFile(<<>>),
               processed |-> NoFile(NoProcessed), llm |-> NoFile(NoAnalysis),
               dashboard |-> NoFile(NoDashboard)]
  /\ runLog = <<>>
  /\ srcLog = [src \in Sources |-> "none"]
  /\ enrich = "none"

\* CACHE_TTL_HOURS is read by loadFromCache only, which execute calls only
\* if CacheConsulted: where it is never read it is left unset
EnvsOf(c) ==
  {e \in Envs : \/ c.enabled /\ c.cacheEnabled /\ e.USE_CACHE = "true"
                \/ e.CACHE_TTL_HOURS = "unset"}

Init ==
  /\ config \in Configs
  /\ env \in EnvsOf(config)
  /\ FetcherStart
  /\ RunIdle
  /\ AuxIdle

Next ==
  \/ ExecuteDisabled /\ UNCHANGED <<runVars, auxVars>>
  \/ ExecuteCacheHit /\ UNCHANGED <<runVars, auxVars>>
  \/ ExecuteCacheMiss /\ UNCHANGED <<runVars, auxVars>>
  \/ RateLimitPass /\ UNCHANGED <<runVars, auxVars>>
  \/ RateLimitWait /\ UNCHANGED <<runVars, auxVars>>
  \/ SleepDone /\ UNCHANGED <<runVars, auxVars>>
  \/ ScrapeSucceeds /\ UNCHANGED <<runVars, auxVars>>
  \/ ScrapeThrows /\ UNCHANGED <<runVars, auxVars>>
  \/ PayloadFileRemoved /\ UNCHANGED <<runVars, auxVars>>
  \/ MetadataFileRemoved /\ UNCHANGED <<runVars, auxVars>>
  \/ MetadataFileGarbled /\ UNCHANGED <<runVars, auxVars>>
  \/ PayloadFileCorrupted /\ UNCHANGED <<runVars, auxVars>>

Spec == Init /\ [][Next]_vars

PipelineInit ==
  /\ config = BaseConfig
  /\ env = [USE_CACHE |-> "unset", CACHE_TTL_HOURS |-> "unset"]
  /\ FetcherStart
  /\ stage = "shodan"
  /\ penv \in [SHODAN_API_KEY : BOOLEAN, X_COOKIES_PATH : BOOLEAN]
  /\ outDir \in StaleDirs
  /\ runLog = <<>>
  /\ srcLog = [src \in Sources |-> "none"]
  /\ enrich = "none"
  /\ AuxIdle

PipelineNext ==
  \/ ShodanSkipped /\ UNCHANGED auxVars
  \/ ShodanExecuted /\ UNCHANGED auxVars
  \/ XSkipped /\ UNCHANGED auxVars
  \/ XExecuted /\ UNCHANGED auxVars
  \/ RunProcessor /\ UNCHANGED auxVars
  \/ AnalyzerNoData /\ UNCHANGED auxVars
  \/ AnalyzerCalls /\ UNCHANGED auxVars
  \/ RunDashboard /\ UNCHANGED auxVars

PipelineSpec == PipelineInit /\ [][PipelineNext]_vars

\* concurrent cache accesses, nothing else running
RaceInit ==
  /\ config \in {c \in Configs : c.enabled /\ c.cacheEnabled}
  /\ env = [USE_CACHE |-> "true", CACHE_TTL_HOURS |-> "unset"]
  /\ FetcherStart
  /\ RunIdle
  /\ race = RaceIdle
  /\ board = BoardIdle
  /\ ollama = LlmIdle
  /\ cti = CtiIdle

RaceNext ==
  \/ \E p \in Puts : PutBegin(p) /\ RaceFrame
  \/ \E p \in Puts : PutPayloadOpened(p) /\ RaceFrame
  \/ \E p \in Puts : PutPayloadWritten(p) /\ RaceFrame
  \/ \E p \in Puts : PutMetaOpened(p) /\ RaceFrame
  \/ \E p \in Puts : PutMetaWritten(p) /\ RaceFrame
  \/ \E p \in Puts : PutStops(p) /\ RaceFrame
  \/ GetAccessMeta /\ RaceFrame
  \/ GetAccessCache /\ RaceFrame
  \/ GetReadMeta /\ RaceFrame
  \/ GetReadData /\ RaceFrame

RaceSpec == RaceInit /\ [][RaceNext]_vars

\* the generator alone
GeneratorIdle ==
  /\ config = BaseConfig
  /\ env = [USE_CACHE |-> "unset", CACHE_TTL_HOURS |-> "unset"]
  /\ FetcherStart
  /\ RunIdle
  /\ race = RaceIdle
  /\ ollama = LlmIdle
  /\ cti = CtiIdle

SeverityCounts ==
  [critical : 0..MaxSeverityCount, high : 0..MaxSeverityCount,
   medium : 0..MaxSeverityCount, low : 0..MaxSeverityCount]

\* the generator run on every combination of severity counts
ScoreInit ==
  /\ GeneratorIdle
  /\ \E present \in BOOLEAN, threats \in {0, 1}, counts \in SeverityCounts :
       board = [BoardIdle EXCEPT
                  !.stage = "processed",
                  !.data = ProcessedData(present, threats, threats, counts,
                                         OneSignal.bySource)]

ScoreNext == Generate

ScoreSpec == ScoreInit /\ [][ScoreNext]_vars

\* the generator run on every number of threats, of recent threats and of
\* sources, with and without an enrichment result
AssessInit ==
  /\ GeneratorIdle
  /\ \E threats \in 0..MaxThreats, llm \in LlmFiles,
        bySource \in [SummarySources -> {NoKey, 0, 1}] :
       \E recent \in 0..threats :
         board = [BoardIdle EXCEPT
                    !.stage = "processed",
                    !.llm = llm,
                    !.data = ProcessedData(TRUE, threats, recent,
                                           [critical |-> 0, high |-> 1, medium |-> 0,
                                            low |-> 0],
                                           bySource)]

AssessNext == Generate

AssessSpec == AssessInit /\ [][AssessNext]_vars

\* the engine and the generator run on every list of candidate signals
CorrelationInit ==
  /\ GeneratorIdle
  /\ \E n \in 0..MaxLabels :
       \E candidates \in [1..n -> Candidates] :
         board = [BoardIdle EXCEPT !.stage = "candidates", !.candidates = candidates]

CorrelationNext ==
  \/ EngineCorrelates
  \/ Generate

CorrelationSpec == CorrelationInit /\ [][CorrelationNext]_vars

\* no fetcher call, no pipeline run and no concurrent cache access
Quiet ==
  /\ config = BaseConfig
  /\ env = [USE_CACHE |-> "unset", CACHE_TTL_HOURS |-> "unset"]
  /\ FetcherStart
  /\ RunIdle
  /\ race = RaceIdle

\* the inputs of LLMAnalyzer: no processed-data.json, or its severity counts
AnalyzerInputs ==
  {EnrichInput(FALSE, 0, 0, 0, <<>>)} \cup
  {EnrichInput(TRUE, c, h, m, <<>>) : c \in {0, 1}, h \in {0, 1, 3}, m \in {0, 1, 6}}

\* the inputs of CTIAgentSystem: the summary counts and the CVEs extracted
AgentInputs ==
  {EnrichInput(FALSE, 0, 0, 0, cves) : cves \in [1..1 -> CveIds] \cup {<<>>}} \cup
  {EnrichInput(TRUE, c, 0, 0, cves) :
     c \in {0, 2}, cves \in [1..1 -> CveIds] \cup {<<>>}}

\* the processed-data.json that LLMAnalyzer and the generator both load
BoardOf(input, stale) ==
  [BoardIdle EXCEPT
     !.stage = "processed",
     !.llm = stale,
     !.data = ProcessedData(input.present, NormalizedOf(input).threatCount,
                            NormalizedOf(input).threatCount,
                            [critical |-> input.critical, high |-> input.high,
                             medium |-> input.medium, low |-> 0],
                            OneSignal.bySource)]

\* one enrichment, by either orchestrator, on every input; LLMAnalyzer is
\* followed by the generator
EnrichInit ==
  /\ Quiet
  /\ cti = CtiIdle
  /\ \/ \E input \in AnalyzerInputs, stale \in LlmFiles :
          /\ ollama = EnrichIdle("LLMAnalyzer", input)
          /\ board = BoardOf(input, stale)
     \/ \E input \in AgentInputs :
          /\ ollama = EnrichIdle("CTIAgentSystem", input)
          /\ board = BoardIdle

EnrichNext ==
  \/ AnalyzeBegins
  \/ FetchRejects
  \/ FetchRespondsError
  \/ FetchRespondsOk
  \/ BodyRejects
  \/ BodyArrives
  \/ TimerFires
  \/ AbortRejects
  \/ GenerateAfterAnalyze

EnrichSpec == EnrichInit /\ [][EnrichNext]_vars

\* the orchestrator called repeatedly on an endpoint that never answers
FallbackNext ==
  \/ AnalyzeBegins
  \/ TimerFires
  \/ AbortRejects
  \/ AnalyzeAgain

FallbackSpec == EnrichInit /\ [][FallbackNext]_vars

\* the two extractors run on every list of CVE ids
ExtractInit ==
  /\ Quiet
  /\ board = BoardIdle
  /\ ollama = LlmIdle
  /\ \/ \E vulns \in CveLists, indicators \in CveLists :
          cti = [CtiIdle EXCEPT
                   !.agents = "loaded",
                   !.shodan = Loaded("this", TRUE, Len(vulns), vulns),
                   !.processed = Loaded("this", TRUE, Len(indicators), indicators)]
     \/ \E mentions \in CveLists :
          cti = [CtiIdle EXCEPT !.queryGen = "loaded", !.mentions = mentions]

ExtractNext ==
  \/ ExtractIndicators
  \/ ExtractFromPosts

ExtractSpec == ExtractInit /\ [][ExtractNext]_vars

\* runScrapers, then CTIAgentSystem.analyze on the same OUTPUT_DIR
AgentNext ==
  \/ ShodanSkipped /\ UNCHANGED auxVars
  \/ ShodanExecuted /\ UNCHANGED auxVars
  \/ XSkipped /\ UNCHANGED auxVars
  \/ XExecuted /\ UNCHANGED auxVars
  \/ AgentsAnalyze

AgentSpec == PipelineInit /\ [][AgentNext]_vars


----------------------------------------------------------------------------
(* Properties of the fetcher *)

Has(seq, x) == \E i \in 1..Len(seq) : seq[i] = x

TtlMs == EffectiveTtlHours * MsPerHour

\* C1: a completed put, with no other write after it, followed by a get before
\* the TTL elapses returns the payload that was put.
C1_RoundTrip ==
  /\ (lastPut.any /\ lastPut.completed /\ now < lastPut.at + TtlMs)
       => loadFromCache(metaFile, cacheFile, now) = Value(lastPut.data)
  /\ (lastPut.any /\ lastPut.completed /\ result.fromCache)
       => result.data = lastPut.data

C1_Witness ==
  /\ lastPut.any /\ lastPut.completed
  /\ result.fromCache
  /\ now = lastPut.at
  /\ result.data = lastPut.data

ChecksumMismatch ==
  /\ metaFile.state = "ok"
  /\ cacheFile.exists
  /\ generateChecksum(cacheFile.bytes) # metaFile.checksum

\* C2: get never throws, and returns MISS when the payload file is missing, the
\* metadata file is missing or unparseable, the checksum mismatches, or the
\* entry is past createdAt + ttl.
C2_FailsOpen ==
  \A gap \in CallGaps :
    LET t == now + gap
        got == loadFromCache(metaFile, cacheFile, t)
    IN /\ got.kind # "throw"
       /\ ( \/ ~cacheFile.exists
            \/ metaFile.state \in {"absent", "garbage"}
            \/ ChecksumMismatch
            \/ (metaFile.state = "ok" /\ t > metaFile.createdAt + TtlMs) )
          => got = Null

C2_Witness ==
  /\ faults
  /\ ChecksumMismatch
  /\ now < metaFile.createdAt + TtlMs
  /\ loadFromCache(metaFile, cacheFile, now) = Null

\* C3: get returns a payload iff now < createdAt + ttl and the recomputed
\* checksum equals the stored one; at now = createdAt + ttl it returns MISS.
C3_ExactValidity ==
  (loadFromCache(metaFile, cacheFile, now).kind = "value")
    <=> /\ metaFile.state = "ok"
        /\ cacheFile.exists
        /\ now < metaFile.createdAt + TtlMs
        /\ generateChecksum(cacheFile.bytes) = metaFile.checksum

BackToBackPair == Len(starts) = 2 /\ starts[2].backToBack

Separation == starts[2].at - starts[1].at

\* C4 as stated: two fetches issued back-to-back start at least
\* 60000/r + c ms apart, whatever the duration of the first fetch.
C4_BackToBack ==
  BackToBackPair =>
    Separation * config.requestsPerMinute
      >= MsPerMinute + config.cooldownMs * config.requestsPerMinute

\* C4 amended: the separation is at least 60000/r + c when the second execute
\* is called less than 60000/r ms after the first fetch started; when the
\* first fetch took 60000/r ms or longer the second fetch starts at once, so
\* the separation is the duration of the first fetch.
C4_BackToBackAmended ==
  BackToBackPair =>
    LET firstTook == starts[2].calledAt - starts[1].at
    IN IF firstTook * config.requestsPerMinute < MsPerMinute
       THEN Separation * config.requestsPerMinute
              >= MsPerMinute + config.cooldownMs * config.requestsPerMinute
       ELSE Separation = firstTook

C4_Witness ==
  /\ BackToBackPair
  /\ (starts[2].calledAt - starts[1].at) * config.requestsPerMinute < MsPerMinute
  /\ Separation * config.requestsPerMinute
       >= MsPerMinute + config.cooldownMs * config.requestsPerMinute

\* C5: consecutive fetches start at least 60000/r ms apart; the limiter sleeps
\* exactly when less than that has elapsed since the previous request, for
\* 60000/r - elapsed + cooldown ms, and never on the first request.
C5_MinInterval ==
  /\ Len(starts) = 2 => Separation * config.requestsPerMinute >= MsPerMinute
  /\ limiter.any =>
       /\ limiter.slept <=> limiter.elapsed * config.requestsPerMinute < MsPerMinute
       /\ limiter.slept =>
            limiter.waitTime * config.requestsPerMinute
              = MsPerMinute - limiter.elapsed * config.requestsPerMinute
                  + config.cooldownMs * config.requestsPerMinute
       /\ limiter.first => ~limiter.slept
  /\ pc = "sleeping" => wakeAt = now + limiter.waitTime

C5_Witness ==
  /\ Len(starts) = 2
  /\ limiter.any /\ limiter.slept
  /\ pc = "fetching"

AfterCall == calls > 0 /\ ~faults

ShortCircuited ==
  /\ pc = "idle"
  /\ result.returned /\ result.success /\ result.fromCache
  /\ result.data = Parse(pre.file.bytes).val
  /\ ~Has(steps, "rate_limit") /\ ~Has(steps, "fetch") /\ ~Has(steps, "cache_write")
  /\ cacheFile = pre.file
  /\ metaFile = pre.meta
  /\ lastRequestTime = pre.lrt

\* C6 as stated: for an enabled fetcher with caching enabled, a valid entry at
\* the call makes execute return it, with no wait, fetch or cache write.
C6_HitShortCircuits ==
  (AfterCall /\ config.enabled /\ config.cacheEnabled /\ pre.valid) => ShortCircuited

\* C6 amended: the same, provided the environment also sets USE_CACHE to 'true';
\* otherwise the cache is not consulted and the fetch happens.
C6_HitShortCircuitsAmended ==
  (AfterCall /\ config.enabled /\ config.cacheEnabled /\ env.USE_CACHE = "true"
     /\ pre.valid) => ShortCircuited

C6_Witness ==
  /\ AfterCall /\ config.enabled /\ config.cacheEnabled /\ env.USE_CACHE = "true"
  /\ pre.valid
  /\ result.fromCache

StepRank(x) ==
  IF x = "cache_check" THEN 1 ELSE IF x = "rate_limit" THEN 2
  ELSE IF x = "fetch" THEN 3 ELSE 4

\* C7: within one call the steps are cache check, rate limit, fetch, cache
\* write in that order; the fetch starts only after the wait is over; the cache
\* is written only after a successful fetch; a failed fetch leaves the cache
\* entry as it was before the call.
C7_StepOrder ==
  /\ \A i, j \in 1..Len(steps) : i < j => StepRank(steps[i]) < StepRank(steps[j])
  /\ Has(steps, "fetch") => Has(steps, "rate_limit")
  /\ pc \in {"rate_limit", "sleeping"} => ~Has(steps, "fetch")
  /\ pc = "fetching" => ~Has(steps, "cache_write")
  /\ Has(steps, "cache_write") =>
       /\ Has(steps, "fetch")
       /\ result.returned /\ result.success /\ ~result.fromCache
  /\ thrown.any =>
       /\ ~Has(steps, "cache_write")
       /\ cacheFile = pre.file
       /\ metaFile = pre.meta

C7_Witness ==
  /\ thrown.any
  /\ pre.file.exists /\ pre.meta.state = "ok"
  /\ steps = <<"cache_check", "rate_limit", "fetch">>

\* C8 as stated: a disabled fetch and a cache-hit fetch are both reported with
\* success = true.
C8_SkipAndHitSucceed ==
  result.returned =>
    /\ ~config.enabled => result.success
    /\ result.fromCache => result.success

\* C8 amended: a cache hit is reported with success = true and fromCache =
\* true; a disabled fetcher is reported with success = false, the error
\* 'Scraper disabled' and fromCache = false.
C8_SkipAndHitAmended ==
  result.returned =>
    /\ ~config.enabled =>
         /\ ~result.success
         /\ result.error = "Scraper disabled"
         /\ ~result.fromCache
    /\ result.fromCache => result.success /\ Has(steps, "cache_check")

C8_Witness == result.returned /\ ~config.enabled /\ calls = MaxCalls

StepOfCall ==
  RateLimitPass \/ RateLimitWait \/ SleepDone \/ ScrapeSucceeds \/ ScrapeThrows

\* C9: whatever scrape() throws and whatever the cache holds, execute returns a
\* result; after a throw it is success = false with an error message and
\* fromCache = false; no exception escapes and no call is ever stuck.
C9_FailureContained ==
  /\ pc # "crashed"
  /\ pc # "idle" => ENABLED StepOfCall
  /\ thrown.any =>
       /\ pc = "idle"
       /\ result.returned
       /\ ~result.success
       /\ ~result.fromCache
       /\ result.data = NoData
       /\ result.error = IF thrown.isError THEN thrown.message ELSE "Unknown error"

C9_Witness == thrown.any /\ ~thrown.isError /\ pre.valid

----------------------------------------------------------------------------
(* Properties of the pipeline run *)

Attempted(src, key) ==
  srcLog[src] \in (IF penv[key] THEN {"fresh", "cached", "failed"} ELSE {"skipped"})

\* C10: in a full run, whatever the two source fetches and the enrichment call
\* do, the run never aborts and is never stuck; each source is attempted
\* whatever happened to the other; every stage runs, in order; the run ends
\* with the dashboard artifact written by this run.
C10_GracefulDegradation ==
  /\ stage # "failed"
  /\ stage # "complete" => ENABLED PipelineNext
  /\ stage # "shodan" => Attempted("shodan", "SHODAN_API_KEY")
  /\ stage \notin {"shodan", "x"} => Attempted("x", "X_COOKIES_PATH")
  /\ stage = "complete" =>
       /\ runLog = <<"scrapers", "processor", "analyzer", "dashboard">>
       /\ enrich # "none"
       /\ outDir.processed.exists /\ outDir.processed.run = "this"
       /\ outDir.dashboard.exists /\ outDir.dashboard.run = "this"
       /\ outDir.dashboard.body.kind \in {"empty", "full"}
       /\ outDir.dashboard.body.totalSignals = outDir.processed.body.threats

C10_Witness ==
  /\ stage = "complete"
  /\ srcLog.shodan = "failed"
  /\ srcLog.x = "fresh"
  /\ enrich = "timeout"
  /\ outDir.dashboard.body.kind = "full"

----------------------------------------------------------------------------
(* Properties of concurrent cache accesses *)

\* the puts that have serialised their payload
Begun == {p \in Puts : race.puts[p].pc # "idle"}

\* C11: whatever the interleaving of a get's file reads with the file
\* writes of concurrent puts (a put may stop between its two writes), the
\* get never throws, and a payload it returns is the complete payload of a
\* put whose own metadata (checksum and createdAt) validated it.
C11_RaceSafe ==
  GetAt("done") =>
    /\ race.get.out.kind \in {"null", "value"}
    /\ race.get.out.kind = "value" =>
         \E q \in Begun :
           /\ race.puts[q].data = race.get.out.val
           /\ race.puts[q].meta = race.get.metaRead
           /\ race.get.fileRead = FileOf(Stringify(race.puts[q].data))
           /\ ~Expired(race.get.at, ExpiryOf(race.puts[q].meta))

\* a get read the metadata of one put and the complete payload of another
C11_Witness ==
  /\ GetAt("done")
  /\ race.get.out = Null
  /\ race.get.metaRead.state = "ok"
  /\ generateChecksum(race.get.fileRead.bytes) # race.get.metaRead.checksum
  /\ \E p, q \in Begun :
       /\ p # q
       /\ race.puts[p].meta = race.get.metaRead
       /\ race.get.fileRead = FileOf(Stringify(race.puts[q].data))
       /\ race.puts[q].pc = "stopped"

----------------------------------------------------------------------------
(* Properties of the correlation engine and of the correlation section *)

Produced == board.stage = "generated"
Correlating == board.stage \in {"processed", "generated"}

\* the signals of processed-data.json and those of the produced section
EngineSignals == board.data.correlation.signals
SectionSignals == board.artifact.correlation.signals

ShownLabels == {SectionSignals[j].label : j \in DOMAIN SectionSignals}

\* C12: in every produced correlation section, a label that is not seen
\* with count > 0 under both sources is absent from correlation.signals,
\* and every label seen with count > 0 under both sources is present,
\* however many there are.
C12_Threshold ==
  (Produced /\ board.artifact.correlation.present) =>
    \A i \in DOMAIN EngineSignals :
      Correlated(EngineSignals[i]) <=> EngineSignals[i].label \in ShownLabels

\* C13: a correlated signal with both lastSeen has exactly one of the three
\* patterns: simultaneous when |timeDeltaHours| < 1, otherwise infra-first
\* when the delta is positive and social-first when it is negative;
\* infraPrecedesSocial is true exactly when the delta is positive; the
\* section shows that delta.
C13_Temporal ==
  Correlating =>
    /\ \A i \in DOMAIN EngineSignals :
         LET sig == EngineSignals[i]
             ta == sig.temporalAnalysis
             delta == sig.social.lastSeen - sig.infra.lastSeen
             within == delta < TenthsPerHour /\ 0 - delta < TenthsPerHour
         IN (Correlated(sig) /\ ta.present) =>
              /\ ta.timeDeltaHours = delta
              /\ ta.pattern \in Patterns
              /\ ta.pattern = "simultaneous" <=> within
              /\ ta.pattern = "infra-first" <=> (~within /\ delta > 0)
              /\ ta.pattern = "social-first" <=> (~within /\ delta < 0)
              /\ ta.infraPrecedesSocial <=> delta > 0
    /\ Produced =>
         \A j \in DOMAIN SectionSignals :
           LET sig == EngineSignals[SectionSignals[j].label]
           IN SectionSignals[j].timeDeltaHours = sig.social.lastSeen - sig.infra.lastSeen

\* one signal of each pattern has been classified, the social-first one
\* exactly one hour apart
C13_Witness ==
  /\ Produced
  /\ \E i, j, k \in DOMAIN EngineSignals :
       /\ Correlated(EngineSignals[i]) /\ EngineSignals[i].temporalAnalysis.pattern = "infra-first"
       /\ Correlated(EngineSignals[j]) /\ EngineSignals[j].temporalAnalysis.pattern = "social-first"
       /\ EngineSignals[j].temporalAnalysis.timeDeltaHours = 0 - TenthsPerHour
       /\ Correlated(EngineSignals[k]) /\ EngineSignals[k].temporalAnalysis.pattern = "simultaneous"
       /\ EngineSignals[k].temporalAnalysis.timeDeltaHours = 5

\* C14: the interpretation of a shown signal is chosen by its pattern:
\* the simultaneous template if and only if the pattern is simultaneous
\* (a delta of 0 included), the infrastructure-before-social templates only
\* for infra-first, the social-before-infrastructure one only for
\* social-first.
C14_InterpretationByPattern ==
  Produced =>
    \A j \in DOMAIN SectionSignals :
      LET pattern == EngineSignals[SectionSignals[j].label].temporalAnalysis.pattern
          shown == SectionSignals[j].interpretation
      IN /\ shown = "simultaneous" <=> pattern = "simultaneous"
         /\ shown \in {"infra-before-social", "scanning-before-social"}
              => pattern = "infra-first"
         /\ shown = "social-before-infra" => pattern = "social-first"

VotesFor(pattern) == Votes(EngineSignals, pattern)

\* C15: dominantPattern is the pattern that more correlated signals hold
\* than any other pattern; on a tie for the highest count, or with no
\* correlated signal, it is insufficient-data; the section reports it.
C15_Dominant ==
  Correlating =>
    LET dominant == board.data.correlation.dominantPattern
        top == CHOOSE n \in 0..Len(EngineSignals) :
                 /\ \A p \in Patterns : VotesFor(p) <= n
                 /\ \E p \in Patterns : VotesFor(p) = n
        leaders == {p \in Patterns : VotesFor(p) = top}
    IN /\ (top = 0 \/ Cardinality(leaders) > 1) => dominant = "insufficient-data"
       /\ (top > 0 /\ Cardinality(leaders) = 1) => dominant \in leaders
       /\ (Produced /\ board.artifact.correlation.present)
            => board.artifact.correlation.pattern = dominant

\* a section was produced for a run whose vote had a winner that is not
\* the pattern of the first signal
C15_Witness ==
  /\ Produced
  /\ board.artifact.correlation.present
  /\ board.artifact.correlation.pattern = "social-first"
  /\ VotesFor("social-first") = 2
  /\ VotesFor("infra-first") = 1
  /\ EngineSignals[1].temporalAnalysis.pattern = "infra-first"

----------------------------------------------------------------------------
(* Properties of the risk assessment *)

Severities == board.data.bySeverity

WeightedSum ==
  Severities.critical * 40 + Severities.high * 20 + Severities.medium * 5
    + Severities.low

FullArtifact == Produced /\ board.artifact.kind = "full"

\* C16: the risk score is min(100, critical*40 + high*20 + medium*5 + low);
\* critical=2, high=1 gives 100, which is level critical.
C16_ScoreFormula ==
  /\ calculateRiskScore(2, 1, 0, 0) = 100
  /\ determineRiskLevel(calculateRiskScore(2, 1, 0, 0)) = "critical"
  /\ FullArtifact =>
       /\ WeightedSum <= 100 => board.artifact.riskScore = WeightedSum
       /\ WeightedSum > 100 => board.artifact.riskScore = 100

\* the scenario critical=2, high=1, medium=0, low=0 was generated
C16_Witness ==
  /\ FullArtifact
  /\ Severities = [critical |-> 2, high |-> 1, medium |-> 0, low |-> 0]
  /\ board.artifact.riskScore = 100
  /\ board.artifact.riskLevel = "critical"

\* C17: one more critical signal never lowers the score, and the score of
\* every artifact, the empty dashboard included, is within 0..100.
C17_MonotoneInRange ==
  /\ calculateRiskScore(Severities.critical + 1, Severities.high, Severities.medium,
                        Severities.low)
       >= calculateRiskScore(Severities.critical, Severities.high, Severities.medium,
                             Severities.low)
  /\ Produced => board.artifact.riskScore \in 0..100

\* an artifact whose weighted sum is above the cap, next to 100 from below
C17_Witness ==
  /\ FullArtifact
  /\ WeightedSum > 100
  /\ calculateRiskScore(Severities.critical - 1, Severities.high, Severities.medium,
                        Severities.low) < 100
  /\ board.artifact.riskScore = 100

LevelByThresholds(score) ==
  CHOOSE level \in {"critical", "elevated", "moderate", "low"} :
    /\ level = "critical" <=> score >= 75
    /\ level = "elevated" <=> (45 <= score /\ score <= 74)
    /\ level = "moderate" <=> (15 <= score /\ score <= 44)
    /\ level = "low" <=> score <= 14

\* C18: for every score in 0..100 the level is critical iff score >= 75,
\* elevated iff 45..74, moderate iff 15..44, low iff <= 14; every artifact's
\* riskLevel is that function of its riskScore.
C18_LevelThresholds ==
  /\ \A score \in 0..100 :
       /\ determineRiskLevel(score) = "critical" <=> score >= 75
       /\ determineRiskLevel(score) = "elevated" <=> (45 <= score /\ score <= 74)
       /\ determineRiskLevel(score) = "moderate" <=> (15 <= score /\ score <= 44)
       /\ determineRiskLevel(score) = "low" <=> score <= 14
  /\ Produced => board.artifact.riskLevel = LevelByThresholds(board.artifact.riskScore)

\* an artifact whose score is exactly a threshold
C18_Witness ==
  /\ FullArtifact
  /\ board.artifact.riskScore = 45
  /\ board.artifact.riskLevel = "elevated"

Total == board.data.threats
Recent == board.data.recent

\* C19: the trend is increasing iff recent > 0.5*total, otherwise
\* decreasing iff recent < 0.2*total, otherwise stable; with no threat it is
\* stable.
C19_Trend ==
  /\ determineTrend(0, 0) = "stable"
  /\ Produced =>
       /\ board.artifact.trend = "increasing" <=> 2 * Recent > Total
       /\ board.artifact.trend = "decreasing"
            <=> (2 * Recent <= Total /\ 5 * Recent < Total)
       /\ board.artifact.trend = "stable"
            <=> (2 * Recent <= Total /\ 5 * Recent >= Total)
       /\ Total = 0 => board.artifact.trend = "stable"

\* an artifact whose recent count is exactly 0.2 * total
C19_Witness ==
  /\ FullArtifact
  /\ Total = 10
  /\ Recent = 2
  /\ board.artifact.trend = "stable"

ThreatBonus == IF Total >= 10 THEN 15 ELSE IF Total >= 5 THEN 10 ELSE 0
NarrativeBonus == IF board.llm.present /\ board.llm.executiveSummary THEN 10 ELSE 0

Contributing == {src \in SummarySources : board.data.bySource[src] >= 1}
Listed == {src \in SummarySources : board.data.bySource[src] # NoKey}

Capped(confidence) == IF confidence > 95 THEN 95 ELSE confidence

\* C20: the confidence of every artifact is min(95, 50 + 10 per source that
\* contributed at least one signal + 15 from 10 signals on, else 10 from 5
\* on + 10 with an enrichment narrative), never above 95.
C20_Confidence ==
  Produced =>
    /\ board.artifact.confidenceLevel
         = Capped(50 + 10 * Cardinality(Contributing) + ThreatBonus + NarrativeBonus)
    /\ board.artifact.confidenceLevel <= 95

\* C20, amended: as above for an artifact built from at least one threat,
\* counting every source listed in summary.bySource; the empty dashboard
\* has confidence 0.
C20_ConfidenceAmended ==
  Produced =>
    /\ board.artifact.kind = "full" =>
         board.artifact.confidenceLevel
           = Capped(50 + 10 * Cardinality(Listed) + ThreatBonus + NarrativeBonus)
    /\ board.artifact.kind = "empty" => board.artifact.confidenceLevel = 0
    /\ board.artifact.confidenceLevel <= 95

\* an artifact whose uncapped confidence is above 95
C20_Witness ==
  /\ FullArtifact
  /\ 50 + 10 * Cardinality(Listed) + ThreatBonus + NarrativeBonus > 95
  /\ board.artifact.confidenceLevel = 95

----------------------------------------------------------------------------
(* Properties of the enrichment step *)

Enriched == ollama.pc = "done" /\ ollama.exit # "empty"
ByAnalyzer == ollama.impl = "LLMAnalyzer"
ByAgents == ollama.impl = "CTIAgentSystem"

CallFailed == ollama.exit \in {"non2xx", "timeout", "network", "no_body"}

\* the time the result was built at
BuiltAt == IF ByAnalyzer THEN ollama.result.analysisTimestamp ELSE ollama.result.timestamp

\* what the structured object supplies for a field, and what free text does
Structured(field) ==
  IF ollama.raw.object.present /\ ollama.raw.object.wellFormed
     /\ Truthy(ollama.raw.object[field])
  THEN ollama.raw.object[field]
  ELSE Undefined

Mentions(field) ==
  SelectSeq(<<MatchLine(ollama.raw.before, field),
              MatchObject(ollama.raw.object, field),
              MatchLine(ollama.raw.after, field)>>,
            LAMBDA v : v.defined)

FreeText(field) == IF Mentions(field) = <<>> THEN Undefined ELSE Head(Mentions(field))

\* the response answered, and no strategy parsed anything out of it
NothingParsed ==
  /\ ollama.exit = "success"
  /\ IF ByAnalyzer
     THEN \A field \in {"risk", "summary", "action"} :
            ~Truthy(Structured(field)) /\ ~Truthy(FreeText(field))
     ELSE /\ ~Truthy(ollama.raw.summary)
          /\ ~ollama.raw.findings.present
          /\ ~ollama.raw.risk.present
          /\ ~ollama.raw.recommendations.present

\* the deterministic heuristic result for the input of this run
HeuristicResult ==
  IF ByAnalyzer
  THEN buildResult(NormalizedOf(ollama.input),
                   [risk |-> calculateRisk(NormalizedOf(ollama.input)),
                    summary |-> defaultSummary(NormalizedOf(ollama.input)),
                    action |-> defaultAction(NormalizedOf(ollama.input))],
                   "heuristic", BuiltAt)
  ELSE CTIAnalysis(fallbackAnalysis(ContextOf(ollama.input, BuiltAt)), BuiltAt)

\* C21: whenever the external call fails (non-2xx, timeout, network error,
\* empty body) or answers with a response no parsing strategy gets anything
\* out of, the enrichment step still returns a result, and every field of it
\* is the deterministic heuristic value; the step never ends without a result.
C21_FallbackTotal ==
  /\ ollama.pc = "done" => ollama.result # NoEnrichment
  /\ (Enriched /\ (CallFailed \/ NothingParsed)) => ollama.result = HeuristicResult

\* the tag of the result names the deterministic fallback
TaggedFallback == ollama.result.model = "heuristic"

\* the tag of the result names the external model
TaggedModel == ollama.result.model \in {"ollama", "CTI_MODEL"}

\* C22: the model tag of an enrichment result names the fallback exactly when
\* the content was produced by the fallback (the call failed, the body was
\* empty, or nothing was parsed), and names the external model only when the
\* call succeeded and contributed parsed content.
C22_ProvenanceFaithful ==
  Enriched =>
    /\ TaggedFallback <=> (CallFailed \/ NothingParsed)
    /\ TaggedModel => (ollama.exit = "success" /\ ~NothingParsed)

\* the orchestrator has run twice on the same input, and the endpoint timed
\* out both times
TimedOutTwice ==
  /\ ollama.pc = "done"
  /\ ollama.exit = "timeout"
  /\ ollama.first.exit = "timeout"

\* C23 as stated: two invocations on the same input with an endpoint that
\* always times out return results equal in every field.
C23_FallbackDeterministic ==
  TimedOutTwice => ollama.result = ollama.first.result

\* a result without the fields that hold the time it was built at
Timeless(analysis) ==
  IF ByAnalyzer
  THEN [analysis EXCEPT
          !.analysisTimestamp = 0,
          !.insights = [i \in 1..Len(analysis.insights) |->
                          [analysis.insights[i] EXCEPT !.id = 0]]]
  ELSE [analysis EXCEPT !.timestamp = 0]

\* C23, amended: the two results are equal in every field other than the
\* timestamp of the result and the insight id derived from the clock.
C23_FallbackDeterministicAmended ==
  TimedOutTwice => Timeless(ollama.result) = Timeless(ollama.first.result)

C23_Witness ==
  /\ TimedOutTwice
  /\ ByAnalyzer
  /\ ollama.invocations = 2
  /\ ollama.result.executiveSummary = defaultSummary(NormalizedOf(ollama.input))
  /\ ollama.result.analysisTimestamp > ollama.first.result.analysisTimestamp

Answered == Enriched /\ ollama.exit = "success"

\* the heuristic default of a field of LLMAnalyzer
DefaultOf(field) ==
  IF field = "summary" THEN defaultSummary(NormalizedOf(ollama.input))
  ELSE defaultAction(NormalizedOf(ollama.input))

\* the risk label the strategies select, as the response wrote it: the
\* structured object's when it has one, else the free text's
SelectedLabel ==
  IF Truthy(Structured("risk")) THEN Structured("risk").text
  ELSE IF Truthy(FreeText("risk")) THEN FreeText("risk").text
  ELSE ""

CarriedRisk ==
  IF ByAgents THEN ollama.result.analysis.riskLevel
  ELSE IF "risk" \in DOMAIN ollama.result THEN ollama.result.risk
  ELSE "none"

\* C25: a field whose value is out of domain (an invalid risk label) is
\* replaced by its heuristic value and the other parsed fields keep the values
\* of the response; a risk label of the domain, in any letter case, is kept
\* and carried into the result.
C25_PerFieldSubstitution ==
  /\ (Answered /\ ByAnalyzer) =>
       /\ LowerCase(SelectedLabel) \in validRisks
            => /\ ollama.fields.risk = LowerCase(SelectedLabel)
               /\ CarriedRisk = LowerCase(SelectedLabel)
       /\ (SelectedLabel # "" /\ LowerCase(SelectedLabel) \notin validRisks)
            => /\ ollama.fields.risk = calculateRisk(NormalizedOf(ollama.input))
               /\ \A field \in {"summary", "action"} :
                    Truthy(Structured(field)) => ollama.fields[field] = Structured(field)
  /\ (Answered /\ ByAgents /\ ollama.raw.risk.present) =>
       /\ LowerCase(ollama.raw.risk.label) \in validRisks
            => CarriedRisk = LowerCase(ollama.raw.risk.label)
       /\ LowerCase(ollama.raw.risk.label) \notin validRisks
            => /\ CarriedRisk
                    = fallbackAnalysis(ContextOf(ollama.input, BuiltAt)).riskLevel
               /\ Truthy(ollama.raw.summary)
                    => ollama.result.analysis.summary = ollama.raw.summary

\* C26: a run sends at most one request; on timeout the request in flight is
\* aborted before the fallback result is produced; on every exit path the
\* timer is cancelled (or has fired), so that nothing remains pending once the
\* orchestrator has returned.
C26_SingleBoundedAttempt ==
  /\ ollama.requests <= 1
  /\ (ollama.pc = "done" /\ ollama.exit = "timeout")
       => (ollama.aborted /\ ~ollama.inflight)
  /\ ollama.pc = "done" => (ollama.timer # "armed" /\ ~ollama.leaked)

\* the run has nothing to analyse: processed-data.json is missing, or it
\* lists no threat
EmptyInput ==
  \/ ~ollama.input.present
  \/ ollama.input.critical + ollama.input.high + ollama.input.medium = 0

\* C27: on empty input (no threats, or no intermediate artifact) the
\* enrichment step returns an empty result without sending a request, no
\* stage throws, and the final artifact is the well-formed empty one: risk
\* score 0, risk level low, trend stable, all counts 0, empty timeline,
\* sources and indicator lists, no correlation section.
C27_EmptyInput ==
  (ByAnalyzer /\ EmptyInput) =>
    /\ ollama.requests = 0
    /\ ollama.timer = "unset"
    /\ ollama.pc \in {"idle", "done"}
    /\ ollama.pc = "done" =>
         /\ ollama.exit = "empty"
         /\ ollama.result.insights = <<>>
         /\ ollama.result.model = "none"
         /\ ~ollama.saved
    /\ board.stage = "generated" =>
         /\ board.artifact.kind = "empty"
         /\ board.artifact.riskScore = 0
         /\ board.artifact.riskLevel = "low"
         /\ board.artifact.trend = "stable"
         /\ board.artifact.totalSignals = 0
         /\ board.artifact.shown.criticalCount = 0
         /\ board.artifact.shown.highCount = 0
         /\ board.artifact.shown.mediumCount = 0
         /\ board.artifact.shown.lowCount = 0
         /\ board.artifact.shown.timeline = 0
         /\ board.artifact.shown.sources = {}
         /\ board.artifact.shown.cves = 0
         /\ ~board.artifact.correlation.present

\* a run on a processed-data.json that lists no threat, up to the artifact
C27_Witness ==
  /\ ByAnalyzer
  /\ ollama.input.present
  /\ EmptyInput
  /\ ollama.exit = "empty"
  /\ board.stage = "generated"
  /\ board.artifact.kind = "empty"

\* the ids of a list of CVE entries
IdsOf(cves) == [i \in 1..Len(cves) |-> cves[i].id]

\* every id is in upper case, and no two ids are equal once upper-cased
NormalizedSet(ids) ==
  /\ \A i \in 1..Len(ids) : ids[i].casing = "upper"
  /\ \A i, j \in 1..Len(ids) : toUpperCase(ids[i]) = toUpperCase(ids[j]) => i = j

\* C28: in every extraction result each CVE identifier is in upper case and
\* no two entries of the CVE list are equal after case normalization,
\* whatever the letter case and multiplicity of the mentions in the
\* infrastructure payload, the posts and the processed indicators.
C28_CveSetNormalized ==
  /\ cti.agents = "extracted" => NormalizedSet(IdsOf(cti.extraction.cves))
  /\ cti.queryGen = "extracted" => NormalizedSet(cti.extracted)

\* the source gave this run no payload: it was skipped, or its fetch failed
NoPayloadFrom(src) == srcLog[src] \in {"skipped", "failed"}

\* C29: no hidden cross-run state: when a source fetch fails or is skipped,
\* the later-stage results of the run (the extraction, from which the
\* enrichment context is built) contain no data of that source taken from
\* what a previous run left in the output directory.
C29_NoHiddenCrossRunState ==
  cti.agents = "extracted" =>
    /\ NoPayloadFrom("shodan") => cti.extraction.ipsFrom # "previous"
    /\ NoPayloadFrom("x") => cti.extraction.socialPostsFrom # "previous"

\* C30: the expiry recorded in the metadata agrees with the expiry that get
\* enforces: for every entry written by put and every value of the TTL
\* override, get returns the payload at time t only if t is before the
\* stored expiresAt, and returns MISS for every t at or after it.
C30_StoredExpiryEnforced ==
  \A gap \in CallGaps :
    LET t == now + gap
        got == loadFromCache(metaFile, cacheFile, t)
    IN metaFile.state = "ok" =>
         /\ got.kind = "value" => t < metaFile.expiresAt
         /\ t >= metaFile.expiresAt => got = Null
====
